---------------------------- MODULE Spec2Model ----------------------------
(***************************************************************************)
(* A model of vidigi's resource stores (vidigi/utils.py) and of the clinic *)
(* models that use them.                                                   *)
(*                                                                         *)
(* The specifications of this module, each on its own variables (the      *)
(* others stay as they were initialised):                                  *)
(*   SpecStore   the VidigiPriorityStore object driven call by call        *)
(*               (populate / get / put / scoped exit / event processing);  *)
(*   Spec        whole clinic runs on the discrete-event scheduler: two    *)
(*               clinics, fed the same arrivals, durations and priorities, *)
(*               each on its own resource primitive;                       *)
(*   SpecLogger  an EventLogger driven call by call (log_event, the typed  *)
(*               emitters, the exports);                                   *)
(*   SpecQuery   the get_events_by_* filters applied to logged events;     *)
(*   SpecPrep    reshape_for_animations applied to event logs;             *)
(*   SpecLegacy  the VidigiPriorityStoreLegacy object driven call by call  *)
(*               (on the variables of SpecStore);                          *)
(*   SpecClosure the control process of the overnight-closure clinic (on   *)
(*               the variables of Spec);                                   *)
(*   SpecLayout  generate_animation_df and animate_activity_log applied to *)
(*               event logs (on the variable of SpecPrep);                 *)
(*   SpecNight   the overnight-closure clinic with its patients and one    *)
(*               closure process per cubicle (on the variables of Spec);   *)
(*   SpecGas     the station tank, the cars and the tank truck of the gas  *)
(*               station example (on the variables of Spec);               *)
(*   SpecRobots  the packing robots of the warehouse example, and          *)
(*   SpecRobotsLive, the same with the scheduler always processing the     *)
(*               next event (on the variables of Spec);                    *)
(*   SpecMarkers the resource markers of generate_animation and the        *)
(*               entities generate_animation_df places on them (on the     *)
(*               variables of Spec).                                       *)
(***************************************************************************)
EXTENDS Integers, Sequences, FiniteSets, TLC

VARIABLES
    pstore,   \* SpecStore: the VidigiPriorityStore object (items, get_queue, put_queue, capacity)
    reqs,     \* SpecStore: the get events created so far (priority, state, value, scope exited)
    nitems,   \* SpecStore: how many VidigiResource objects have been created
    trig,     \* SpecStore: the triggered get events the scheduler has yet to process, oldest first
    last,     \* SpecStore: the last call made and its arguments
    sims,     \* Spec: the two simulation environments, side 1 and side 2
    inp,      \* Spec: the sampled arrivals, durations, priorities shared by both sides
    logger,   \* SpecLogger, SpecQuery: the EventLogger object (env, run_number, _log)
    lcall,    \* SpecLogger, SpecQuery: the last call on the logger and how it ended
    prep      \* SpecPrep: an event log, the reshape parameters and the reshaped rows

storeVars == <<pstore, reqs, nitems, trig, last>>
simVars   == <<sims, inp>>
logVars   == <<logger, lcall>>
prepVars  == <<prep>>
vars      == <<pstore, reqs, nitems, trig, last, sims, inp, logger, lcall, prep>>

---------------------------------------------------------------------------
(* Bounds of the model.                                                    *)

\* how many get events SpecStore creates
MaxRequests == 3
\* how many VidigiResource objects SpecStore creates
MaxItems == 2

\* capacity=float('inf'), the constructors' default
Unbounded == -1

Priorities == {1, 2}
Capacities == {Unbounded, 1, 2}

---------------------------------------------------------------------------
(* Sequence helpers.                                                       *)

InsertAt(s, pos, x) ==
    SubSeq(s, 1, pos) \o <<x>> \o SubSeq(s, pos + 1, Len(s))

RemoveAt(s, pos) ==
    SubSeq(s, 1, pos - 1) \o SubSeq(s, pos + 1, Len(s))

Range(s) == {s[i] : i \in 1..Len(s)}

---------------------------------------------------------------------------
(* VidigiPriorityStore: the methods as functions of the store object.      *)
(* A store is [items, get_queue, put_queue, capacity]; get_queue holds     *)
(* [id, priority] (the pending event and its priority attribute),          *)
(* put_queue holds [id, item].  Each method returns the store after the    *)
(* call and `fired`, the events it called succeed() on, in call order,     *)
(* as [ev, val].                                                           *)

NewStore(capacity) ==
    [items |-> <<>>, get_queue |-> <<>>, put_queue |-> <<>>, capacity |-> capacity]

HasSpace(st) ==
    st.capacity = Unbounded \/ Len(st.items) < st.capacity

\* the for-loop of get(): the position before the first entry with a
\* strictly larger priority value, else the end (0-based, as in the code)
InsertPosLifoTies(get_queue, priority) ==
    LET larger == {i \in 1..Len(get_queue) : priority <= get_queue[i].priority}
    IN  IF larger = {} THEN Len(get_queue)
        ELSE (CHOOSE i \in larger : \A j \in larger : i <= j) - 1

InsertPos(get_queue, priority) ==
    LET larger == {i \in 1..Len(get_queue) : priority < get_queue[i].priority}
    IN  IF larger = {} THEN Len(get_queue)
        ELSE (CHOOSE i \in larger : \A j \in larger : i <= j) - 1

PS_process_put_queue(st) ==
    IF st.put_queue # <<>> /\ HasSpace(st)
    THEN LET request == Head(st.put_queue)
         IN  [st    |-> [st EXCEPT !.put_queue = Tail(@),
                                   !.items = Append(@, request.item)],
              fired |-> <<[ev |-> <<"put", request.id>>, val |-> 0]>>]
    ELSE [st |-> st, fired |-> <<>>]

PS_get(st, id, priority) ==
    IF st.items # <<>>
    THEN [st    |-> [st EXCEPT !.items = Tail(@)],
          fired |-> <<[ev |-> <<"get", id>>, val |-> Head(st.items)]>>]
    ELSE LET q == InsertAt(st.get_queue, InsertPos(st.get_queue, priority),
                           [id |-> id, priority |-> priority])
         IN  PS_process_put_queue([st EXCEPT !.get_queue = q])

PS_put(st, id, item) ==
    IF HasSpace(st)
    THEN IF st.get_queue # <<>>
         THEN [st    |-> [st EXCEPT !.get_queue = Tail(@)],
               fired |-> <<[ev |-> <<"get", Head(st.get_queue).id>>, val |-> item],
                           [ev |-> <<"put", id>>, val |-> 0]>>]
         ELSE [st    |-> [st EXCEPT !.items = Append(@, item)],
               fired |-> <<[ev |-> <<"put", id>>, val |-> 0]>>]
    ELSE [st    |-> [st EXCEPT !.put_queue = Append(@, [id |-> id, item |-> item])],
          fired |-> <<>>]

PS_return_item_bank(st, item) ==
    [st |-> [st EXCEPT !.items = Append(@, item)], fired |-> <<>>]

PS_return_item(st, item) ==
    IF st.get_queue # <<>>
    THEN [st    |-> [st EXCEPT !.get_queue = Tail(@)],
          fired |-> <<[ev |-> <<"get", Head(st.get_queue).id>>, val |-> item]>>]
    ELSE [st |-> [st EXCEPT !.items = Append(@, item)], fired |-> <<>>]

\* populate(num_resources): put VidigiResource(id_attribute = i + 1) for i in range(n);
\* `first` is the loop index, put ids follow the resource ids
RECURSIVE PS_populate_from(_, _, _)
PS_populate_from(st, first, num_resources) ==
    IF first >= num_resources THEN [st |-> st, fired |-> <<>>]
    ELSE LET one  == PS_put(st, first + 1, first + 1)
             rest == PS_populate_from(one.st, first + 1, num_resources)
         IN  [st |-> rest.st, fired |-> one.fired \o rest.fired]

PS_populate(st, num_resources) == PS_populate_from(st, 0, num_resources)


---------------------------------------------------------------------------
(* SpecStore: one VidigiPriorityStore driven call by call.                 *)
(* reqs[r] is the event store.get() returned for the r-th call:            *)
(*   state    "pending" (in get_queue), "triggered" (succeed() called, the *)
(*            scheduler has not run its callbacks yet) or "processed";     *)
(*   value    the item it was completed with (0: none);                    *)
(*   exited   the scope of the request() handle that made it was left;     *)
(*   back     how many times its item was given back to the store.         *)

NoCall == [op |-> "new", item |-> 0, req |-> 0]

\* apply succeed(value) to the get events a call fired
Fire(rq, fired) ==
    [r \in DOMAIN rq |->
        IF \E i \in 1..Len(fired) : fired[i].ev = <<"get", r>>
        THEN LET i == CHOOSE i \in 1..Len(fired) : fired[i].ev = <<"get", r>>
             IN  [rq[r] EXCEPT !.state = "triggered", !.value = fired[i].val]
        ELSE rq[r]]

\* the get events among `fired`, in the order succeed() scheduled them
FiredGets(fired) ==
    LET F[i \in 0..Len(fired)] ==
            IF i = 0 THEN <<>>
            ELSE IF fired[i].ev[1] = "get" THEN Append(F[i - 1], fired[i].ev[2])
                 ELSE F[i - 1]
    IN  F[Len(fired)]

InitStore ==
    /\ pstore \in {NewStore(c) : c \in Capacities}
    /\ reqs = <<>>
    /\ nitems = 0
    /\ trig = <<>>
    /\ last = NoCall
    /\ sims = <<>>
    /\ inp = <<>>
    /\ logger = <<>>
    /\ lcall = <<>>
    /\ prep = <<>>

\* VidigiPriorityStore(env, capacity, num_resources=n): __init__ calls populate(n)
SPopulate(n) ==
    /\ last.op = "new"
    /\ LET res == PS_populate(pstore, n)
       IN  /\ pstore' = res.st
           /\ last' = [op |-> "populate", item |-> n, req |-> 0]
    /\ nitems' = n
    /\ UNCHANGED <<reqs, trig, simVars, logVars, prepVars>>

\* get(priority) / get_direct(priority) / request(priority)
SGet(priority) ==
    /\ Len(reqs) < MaxRequests
    /\ LET id  == Len(reqs) + 1
           res == PS_get(pstore, id, priority)
           new == [priority |-> priority, state |-> "pending", value |-> 0,
                   exited |-> FALSE, back |-> 0]
       IN  /\ pstore' = res.st
           /\ reqs' = Fire(Append(reqs, new), res.fired)
           /\ trig' = trig \o FiredGets(res.fired)
           /\ last' = [op |-> "get", item |-> 0, req |-> id]
    /\ UNCHANGED <<nitems, simVars, logVars, prepVars>>

\* put(VidigiResource(...)) of a resource that was not in the store before
SPutNew ==
    /\ nitems < MaxItems
    /\ LET item == nitems + 1
           res  == PS_put(pstore, item, item)
       IN  /\ pstore' = res.st
           /\ reqs' = Fire(reqs, res.fired)
           /\ trig' = trig \o FiredGets(res.fired)
           /\ last' = [op |-> "put", item |-> item, req |-> 0]
    /\ nitems' = nitems + 1
    /\ UNCHANGED <<simVars, logVars, prepVars>>

\* the scheduler runs the callbacks of the oldest triggered get event
SProcess ==
    /\ trig # <<>>
    /\ reqs' = [reqs EXCEPT ![Head(trig)].state = "processed"]
    /\ trig' = Tail(trig)
    /\ last' = [op |-> "process", item |-> 0, req |-> Head(trig)]
    /\ UNCHANGED <<pstore, nitems, simVars, logVars, prepVars>>

\* get-then-put: the process that received the item puts it back with put()
SPutBack(r) ==
    /\ r \in DOMAIN reqs
    /\ ~reqs[r].exited
    /\ reqs[r].state = "processed"
    /\ reqs[r].back = 0
    /\ LET item == reqs[r].value
           res  == PS_put(pstore, item, item)
       IN  /\ pstore' = res.st
           /\ reqs' = Fire([reqs EXCEPT ![r].back = @ + 1], res.fired)
           /\ trig' = trig \o FiredGets(res.fired)
           /\ last' = [op |-> "put", item |-> item, req |-> r]
    /\ UNCHANGED <<nitems, simVars, logVars, prepVars>>

\* _OptimizedStoreRequest.__exit__
SExit(r) ==
    /\ r \in DOMAIN reqs
    /\ ~reqs[r].exited
    /\ reqs[r].back = 0
    /\ IF reqs[r].state = "processed"
       THEN LET item == reqs[r].value
                res  == PS_return_item(pstore, item)
            IN  /\ pstore' = res.st
                /\ reqs' = Fire([reqs EXCEPT ![r].exited = TRUE, ![r].back = @ + 1],
                                res.fired)
                /\ trig' = trig \o FiredGets(res.fired)
                /\ last' = [op |-> "return_item", item |-> item, req |-> r]
       ELSE /\ pstore' = pstore
            /\ reqs' = [reqs EXCEPT ![r].exited = TRUE]
            /\ trig' = trig
            /\ last' = [op |-> "exit", item |-> 0, req |-> r]
    /\ UNCHANGED <<nitems, simVars, logVars, prepVars>>

NextStore ==
    \/ \E n \in 0..MaxItems : SPopulate(n)
    \/ \E priority \in Priorities : SGet(priority)
    \/ SPutNew
    \/ SProcess
    \/ \E r \in 1..MaxRequests : SPutBack(r)
    \/ \E r \in 1..MaxRequests : SExit(r)

SpecStore == InitStore /\ [][NextStore]_vars

\* the first waiting request of a store: lowest priority value, earliest among ties
IsFront(get_queue) ==
    \A i \in 2..Len(get_queue) :
        /\ get_queue[1].priority <= get_queue[i].priority
        /\ get_queue[1].priority = get_queue[i].priority => get_queue[1].id < get_queue[i].id

(* C9: in VidigiPriorityStore, items and get_queue are never both         *)
(* non-empty, for any configured capacity.                                *)
C9_ItemsOrWaitersEmpty ==
    ~(pstore.items # <<>> /\ pstore.get_queue # <<>>)

\* this step is a release: return_item, or put while len(items) < capacity
ReleaseStep ==
    \/ last'.op = "return_item"
    \/ last'.op = "put" /\ HasSpace(pstore)

(* C10: a release made while get_queue is non-empty completes the front   *)
(* waiting request (lowest priority value, earliest among ties) with that *)
(* very item within the call, removes it from get_queue and leaves items  *)
(* unchanged.                                                             *)
C10_ReleaseHandsToFront ==
    [][(ReleaseStep /\ pstore.get_queue # <<>>) =>
        LET front == Head(pstore.get_queue)
        IN  /\ IsFront(pstore.get_queue)
            /\ reqs[front.id].state = "pending"
            /\ reqs'[front.id].state = "triggered"
            /\ reqs'[front.id].value = last'.item
            /\ pstore'.get_queue = Tail(pstore.get_queue)
            /\ pstore'.items = pstore.items]_vars

\* an item was returned and handed to a waiter of priority 1 that had
\* overtaken an earlier waiter of priority 2, which still waits
C10_Witness ==
    /\ last.op = "return_item"
    /\ pstore.get_queue # <<>>
    /\ \E r \in DOMAIN reqs :
        /\ reqs[r].state = "triggered"
        /\ reqs[r].value = last.item
        /\ reqs[r].priority < reqs[Head(pstore.get_queue).id].priority
        /\ r > Head(pstore.get_queue).id

---------------------------------------------------------------------------
(* The scheduling engine's item store (simpy.Store), which VidigiStore    *)
(* wraps and VidigiPriorityStoreLegacy subclasses, and its mutual-         *)
(* exclusion resource (simpy.Resource / PriorityResource), to which        *)
(* VidigiResource delegates.  Queue entries are [id, priority, time, np]:  *)
(* the waiting event, its priority, its creation time and `not preempt`    *)
(* (0, preempt defaulting to True), i.e. PriorityGetLegacy.key.            *)

QEntry(id, priority, time) ==
    [id |-> id, priority |-> priority, time |-> time, np |-> 0]

\* tuple order on keys (priority, time, not preempt)
KeyLE(a, b) ==
    \/ a.priority < b.priority
    \/ a.priority = b.priority /\ a.time < b.time
    \/ a.priority = b.priority /\ a.time = b.time /\ a.np <= b.np

\* SortedQueue.append: append, then a stable sort by key
SortedAppend(q, entry) ==
    InsertAt(q, Cardinality({i \in 1..Len(q) : KeyLE(q[i], entry)}), entry)

QueueAppend(q, entry, sorted) ==
    IF sorted THEN SortedAppend(q, entry) ELSE Append(q, entry)

\* BaseResource._trigger_get with Store._do_get: the head get is served if
\* an item is there; _do_get returns None, so the loop stops after the head
\* (first a variant that serves the head with a copy of the item)
ST_trigger_get_copy(st) ==
    IF st.get_queue # <<>> /\ st.items # <<>>
    THEN [st    |-> [st EXCEPT !.get_queue = Tail(@)],
          fired |-> <<[ev |-> <<"get", Head(st.get_queue).id>>, val |-> Head(st.items)]>>]
    ELSE [st |-> st, fired |-> <<>>]

ST_trigger_get(st) ==
    IF st.get_queue # <<>> /\ st.items # <<>>
    THEN [st    |-> [st EXCEPT !.get_queue = Tail(@), !.items = Tail(@)],
          fired |-> <<[ev |-> <<"get", Head(st.get_queue).id>>, val |-> Head(st.items)]>>]
    ELSE [st |-> st, fired |-> <<>>]

\* BaseResource._trigger_put with Store._do_put
ST_trigger_put(st) ==
    IF st.put_queue # <<>> /\ HasSpace(st)
    THEN [st    |-> [st EXCEPT !.put_queue = Tail(@),
                               !.items = Append(@, Head(st.put_queue).item)],
          fired |-> <<[ev |-> <<"put", Head(st.put_queue).id>>, val |-> 0]>>]
    ELSE [st |-> st, fired |-> <<>>]

\* Store.put(item): StorePut.__init__ queues the event and calls _trigger_put
ST_put(st, id, item) ==
    ST_trigger_put([st EXCEPT !.put_queue = Append(@, [id |-> id, item |-> item])])

\* Store.get(): Get.__init__ queues the event and calls _trigger_get
ST_get(st, id, priority, time, sorted) ==
    ST_trigger_get([st EXCEPT !.get_queue =
                        QueueAppend(@, QEntry(id, priority, time), sorted)])

NewResource(capacity) ==
    [users |-> <<>>, put_queue |-> <<>>, capacity |-> capacity]

\* BaseResource._trigger_put with Resource._do_put: the head request
\* becomes a user if a slot is free
RS_trigger_put(st) ==
    IF st.put_queue # <<>> /\ Len(st.users) < st.capacity
    THEN [st    |-> [st EXCEPT !.put_queue = Tail(@),
                               !.users = Append(@, Head(st.put_queue).id)],
          fired |-> <<[ev |-> <<"get", Head(st.put_queue).id>>, val |-> 0]>>]
    ELSE [st |-> st, fired |-> <<>>]

\* Resource.request(): Request (a Put) queues itself and calls _trigger_put
RS_request(st, id, priority, time, sorted) ==
    RS_trigger_put([st EXCEPT !.put_queue =
                        QueueAppend(@, QEntry(id, priority, time), sorted)])

\* Resource.release(request): Release (a Get) is served at once by
\* Resource._do_get, which removes the request from users
RS_release(st, id) ==
    [st    |-> [st EXCEPT !.users = SelectSeq(@, LAMBDA u : u # id)],
     fired |-> <<[ev |-> <<"put", id>>, val |-> 0]>>]

\* simpy_store.put(item) on whichever store class the model built:
\* VidigiPriorityStore.put, or Store.put (VidigiStore.put forwards to it)
StorePut(variant, st, id, item) ==
    IF variant = "opt" THEN PS_put(st, id, item) ELSE ST_put(st, id, item)

\* populate_store(num_resources, simpy_store, sim_env):
\* simpy_store.put(VidigiResource(sim_env, capacity=1, id_attribute=i+1))
RECURSIVE populate_store_from(_, _, _, _)
populate_store_from(variant, st, first, num_resources) ==
    IF first >= num_resources THEN [st |-> st, fired |-> <<>>]
    ELSE LET one  == StorePut(variant, st, first + 1, first + 1)
             rest == populate_store_from(variant, one.st, first + 1, num_resources)
         IN  [st |-> rest.st, fired |-> one.fired \o rest.fired]

populate_store_zero_based(variant, st, num_resources) ==
    LET res == populate_store_from(variant, st, 0, num_resources)
    IN  [st    |-> [res.st EXCEPT !.items = [i \in DOMAIN @ |-> @[i] - 1]],
         fired |-> res.fired]

populate_store(variant, st, num_resources) ==
    populate_store_from(variant, st, 0, num_resources)

\* VidigiStore.populate(num_resources): self.put(VidigiResource(..., i + 1))
RECURSIVE VS_populate_from(_, _, _)
VS_populate_from(st, first, num_resources) ==
    IF first >= num_resources THEN [st |-> st, fired |-> <<>>]
    ELSE LET one  == ST_put(st, first + 1, first + 1)
             rest == VS_populate_from(one.st, first + 1, num_resources)
         IN  [st |-> rest.st, fired |-> one.fired \o rest.fired]

VS_populate(st, num_resources) == VS_populate_from(st, 0, num_resources)

\* the loop of Model.init_resources: put VidigiResource(id_attribute = i+1)
\* for i in range(g.n_cubicles)
RECURSIVE init_resources_loop_from(_, _, _, _)
init_resources_loop_from(variant, st, first, n_cubicles) ==
    IF first >= n_cubicles THEN [st |-> st, fired |-> <<>>]
    ELSE LET one  == StorePut(variant, st, first + 1, first + 1)
             rest == init_resources_loop_from(variant, one.st, first + 1, n_cubicles)
         IN  [st |-> rest.st, fired |-> one.fired \o rest.fired]

init_resources_loop(variant, st, n_cubicles) ==
    init_resources_loop_from(variant, st, 0, n_cubicles)

---------------------------------------------------------------------------
(* The clinic models on the discrete-event scheduler.                      *)
(*                                                                         *)
(* A simulation (one side) is a record:                                    *)
(*   variant  the resource primitive of the clinic: "fifo" VidigiStore     *)
(*            through request() scopes, "legacy" VidigiPriorityStoreLegacy *)
(*            through get-then-put, "opt" VidigiPriorityStore through      *)
(*            request(priority) scopes, "res" / "pres" the native          *)
(*            (priority) mutual-exclusion resource of capacity n_cubicles; *)
(*   phase    "new", "ready" (resources built), "run", "crashed";          *)
(*   now, eid, queue   the environment: clock, event counter, event heap   *)
(*            of [t, pr, id, kind, p];                                     *)
(*   store    the store or resource object;                                *)
(*   gst, gval  per patient, the state and value of its get/request event; *)
(*   cst      per patient, the state of its (req | timeout) condition;     *)
(*   back     per patient, how many times it gave its item back;           *)
(*   pc       per process (0: generator_patient_arrivals), where it waits; *)
(*   counter  patient_counter;  log  event_log.                            *)

\* patients the arrival generator creates before the run is cut off
MaxPatients == 3

\* scheduling priorities of the engine: process start-up is urgent
URGENT == 0
NORMAL == 1

Sides    == {1, 2}
Patients == 1..MaxPatients
Gaps      == {0, 1}          \* sampled inter-arrival times
Durations == {1, 2}          \* sampled treatment durations
Cubicles  == {1, 2}          \* g.n_cubicles
UnavFreqs == {2, 3}          \* g.unav_freq, the closing period of the race
StoreVariants  == {"fifo", "legacy", "opt"}
ScopedVariants == {"fifo", "opt"}

\* the clinics run side by side on the same samples
Pairs == {<<"res", "fifo">>, <<"legacy", "opt">>, <<"pres", "opt">>, <<"fifo", "opt">>}

NewSim(variant) ==
    [variant |-> variant, phase |-> "new", now |-> 0, eid |-> 0, queue |-> <<>>,
     store   |-> IF variant \in StoreVariants THEN NewStore(Unbounded) ELSE NewResource(0),
     gst     |-> [p \in Patients |-> "none"],
     gval    |-> [p \in Patients |-> 0],
     cst     |-> [p \in Patients |-> "none"],
     back    |-> [p \in Patients |-> 0],
     pc      |-> [p \in 0..MaxPatients |-> "new"],
     counter |-> 0,
     log     |-> <<>>]

\* heap order of the environment: (time, priority, event id)
EvBefore(a, b) ==
    \/ a.t < b.t
    \/ a.t = b.t /\ a.pr < b.pr
    \/ a.t = b.t /\ a.pr = b.pr /\ a.id < b.id

\* env.schedule(event, priority, delay): heappush of (now + delay, priority,
\* next(eid), event); the heap is kept as the sequence in heap order
Sched(sim, kind, p, pr, delay) ==
    LET entry == [t |-> sim.now + delay, pr |-> pr, id |-> sim.eid,
                  kind |-> kind, p |-> p]
        pos   == Cardinality({i \in 1..Len(sim.queue) : EvBefore(sim.queue[i], entry)})
    IN  [sim EXCEPT !.queue = InsertAt(@, pos, entry), !.eid = @ + 1]

HeadEv(sim) == Head(sim.queue)

\* env.step(): pop the next event and advance the clock to it
Pop(sim) == [sim EXCEPT !.queue = Tail(@), !.now = HeadEv(sim).t]

\* succeed() on each fired event: it is triggered and scheduled at now
RECURSIVE ApplyFired(_, _)
ApplyFired(sim, fired) ==
    IF fired = <<>> THEN sim
    ELSE LET f == Head(fired)
             s1 == IF f.ev[1] = "get"
                   THEN Sched([sim EXCEPT !.gst[f.ev[2]] = "triggered",
                                          !.gval[f.ev[2]] = f.val],
                              "get", f.ev[2], NORMAL, 0)
                   ELSE Sched(sim, "put", f.ev[2], NORMAL, 0)
         IN  ApplyFired(s1, Tail(fired))

\* self.event_log.append({...})
Log(sim, p, ev, rid) ==
    [sim EXCEPT !.log = Append(@, [e |-> p, ev |-> ev, t |-> sim.now, rid |-> rid])]

\* VidigiStore.request(): _StoreRequest.__init__ creates store.store.get()
\* (first a variant whose get goes to the front of the queue)
VS_request_front(st, id, time) ==
    ST_trigger_get([st EXCEPT !.get_queue = <<QEntry(id, 0, time)>> \o @])

VS_request(st, id, time) == ST_get(st, id, 0, time, FALSE)

\* VidigiPriorityStoreLegacy.get(priority): PriorityGetLegacy in a SortedQueue
PGL_get(st, id, priority, time) == ST_get(st, id, priority, time, TRUE)

\* _StoreRequest.__exit__: put the item back if the get event was processed
StoreRequest_exit_never(st, processed, id, item) ==
    [st |-> st, fired |-> <<>>]

StoreRequest_exit(st, processed, id, item) ==
    IF processed THEN ST_put(st, id, item) ELSE [st |-> st, fired |-> <<>>]

\* _OptimizedStoreRequest.__exit__: return_item if the get event was processed
\* (first a variant that gives back whatever the handle holds)
OptimizedStoreRequest_exit_always(st, processed, item) ==
    PS_return_item(st, item)

OptimizedStoreRequest_exit(st, processed, item) ==
    IF processed THEN PS_return_item(st, item) ELSE [st |-> st, fired |-> <<>>]

\* the clinic on the native resource: with self.treatment.request(...) as
\* req, and the release on leaving that scope
NativeClinic_request(st, variant, id, priority, time) ==
    IF variant = "pres" THEN RS_request(st, id, priority, time, TRUE)
    ELSE RS_request(st, id, 0, time, FALSE)

NativeClinic_release(st, id) == RS_release(st, id)

\* test_against_core_simpy.run_trial(drop_resource_id=True)
DropRid(log) ==
    [i \in DOMAIN log |-> [e |-> log[i].e, ev |-> log[i].ev, t |-> log[i].t]]

\* the request a patient issues on arrival, per resource primitive
Issue(sim, p) ==
    LET v    == sim.variant
        prio == inp.prio[p]
        res  == CASE v = "fifo"   -> VS_request(sim.store, p, sim.now)
                  [] v = "legacy" -> PGL_get(sim.store, p, prio, sim.now)
                  [] v = "opt"    -> PS_get(sim.store, p, prio)
                  [] OTHER        -> NativeClinic_request(sim.store, v, p, prio, sim.now)
    IN  ApplyFired([sim EXCEPT !.store = res.st, !.gst[p] = "pending"], res.fired)

\* leaving the with-block (or, get-then-put, the explicit put)
ExitScope(sim, p) ==
    LET v         == sim.variant
        processed == sim.gst[p] = "processed"
        item      == sim.gval[p]
        res  == CASE v = "fifo"   -> StoreRequest_exit(sim.store, processed, p, item)
                  [] v = "opt"    -> OptimizedStoreRequest_exit(sim.store, processed, item)
                  [] v = "legacy" -> ST_put(sim.store, p, item)
                  [] OTHER        -> NativeClinic_release(sim.store, p)
        gave == v \in StoreVariants /\ (v = "legacy" \/ processed)
    IN  ApplyFired([sim EXCEPT !.store = res.st,
                               !.back[p] = IF gave THEN @ + 1 ELSE @], res.fired)

\* the resource_id a clinic logs: the stores log id_attribute, the native
\* resource has none
Rid(sim, p) == IF sim.variant \in StoreVariants THEN sim.gval[p] ELSE 0

\* generator_patient_arrivals: one pass of its loop, up to the timeout
generator_patient_arrivals(sim) ==
    LET n  == sim.counter + 1
        s1 == Sched([sim EXCEPT !.counter = n, !.pc[n] = "start"], "init", n, URGENT, 0)
    IN  IF n < MaxPatients
        THEN Sched([s1 EXCEPT !.pc[0] = "wait_arr"], "arr", 0, NORMAL, inp.gap[n])
        ELSE [s1 EXCEPT !.pc[0] = "cut"]

\* attend_clinic up to its first wait: log arrival and treatment_wait_begins,
\* issue the request, wait on it (or on req | timeout(time_until_closing))
attend_clinic_arrive(sim, p) ==
    LET s1 == Log(Log(sim, p, "arrival", 0), p, "treatment_wait_begins", 0)
        s2 == Issue(s1, p)
    IN  IF inp.mode = "race" /\ sim.variant \in ScopedVariants
        THEN LET time_until_closing == inp.unav_freq - (sim.now % inp.unav_freq)
             IN  Sched([s2 EXCEPT !.cst[p] = "pending", !.pc[p] = "wait_race"],
                       "race", p, NORMAL, time_until_closing)
        ELSE [s2 EXCEPT !.pc[p] = "wait_req"]

\* process termination: the process event is scheduled
EndProcess(sim, p) == Sched([sim EXCEPT !.pc[p] = "done"], "end", p, NORMAL, 0)

\* attend_clinic resumed with the item: log treatment_begins, then wait for
\* the treatment; patient inp.failer raises inside the with-block instead
attend_clinic_begin(sim, p) ==
    LET s1 == Log(sim, p, "treatment_begins", Rid(sim, p))
    IN  IF inp.failer = p
        THEN Sched([ExitScope(s1, p) EXCEPT !.pc[p] = "failed"], "fail", p, NORMAL, 0)
        ELSE Sched([s1 EXCEPT !.pc[p] = "treat"], "treat", p, NORMAL, inp.dur[p])

\* attend_clinic after the treatment: log treatment_complete, leave the
\* scope, log depart
attend_clinic_complete(sim, p) ==
    LET s1 == Log(sim, p, "treatment_complete", Rid(sim, p))
        s2 == ExitScope(s1, p)
    IN  EndProcess(Log(s2, p, "depart", 0), p)

\* attend_clinic when the race was lost (req not in result_of_queue):
\* leave the scope, log depart
attend_clinic_give_up(sim, p) ==
    EndProcess(Log(ExitScope(sim, p), p, "depart", 0), p)

\* Condition._check: the first of (req, timeout) to be processed triggers
\* the pending condition
Condition_check(sim, p) ==
    IF sim.cst[p] = "pending"
    THEN Sched([sim EXCEPT !.cst[p] = "triggered"], "cond", p, NORMAL, 0)
    ELSE sim

---------------------------------------------------------------------------
(* Spec: construction, then one scheduler step per action.                 *)

InputsOf(pair) ==
    IF pair = <<"fifo", "opt">>
    THEN \* the scoped stores on their exit paths: an exception inside the
         \* scope, or the acquire-or-timeout race
         {[mode |-> "plain", failer |-> f, unav_freq |-> 0,
           prio |-> [p \in Patients |-> 1]] : f \in Patients}
         \cup {[mode |-> "race", failer |-> 0, unav_freq |-> u,
                prio |-> [p \in Patients |-> 1]] : u \in UnavFreqs}
    ELSE IF pair = <<"res", "fifo">>
    THEN {[mode |-> "plain", failer |-> 0, unav_freq |-> 0,
           prio |-> [p \in Patients |-> 1]]}
    ELSE {[mode |-> "plain", failer |-> 0, unav_freq |-> 0, prio |-> pr] :
            pr \in [Patients -> Priorities]}

Init ==
    /\ \E pair \in Pairs, n \in Cubicles,
          gap \in [1..(MaxPatients - 1) -> Gaps], dur \in [Patients -> Durations] :
          \E o \in InputsOf(pair) :
            /\ inp = [pair |-> pair, n_cubicles |-> n, gap |-> gap, dur |-> dur,
                      prio |-> o.prio, mode |-> o.mode, failer |-> o.failer,
                      unav_freq |-> o.unav_freq]
            /\ sims = [s \in Sides |-> NewSim(pair[s])]
    /\ pstore = NewStore(Unbounded)
    /\ reqs = <<>>
    /\ nitems = 0
    /\ trig = <<>>
    /\ last = NoCall
    /\ logger = <<>>
    /\ lcall = <<>>
    /\ prep = <<>>

\* a run is over: the event heap is empty, or a process failure stopped it
Finished(sim) ==
    \/ sim.phase = "crashed"
    \/ sim.phase = "run" /\ sim.queue = <<>>

\* the two runs are independent: side 2 runs once side 1 is over
Active(s) == s = 1 \/ Finished(sims[1])

\* the ways a model fills its store
Fills(variant) ==
    IF variant = "legacy" THEN {"populate_store", "loop"}
    ELSE {"populate_store", "loop", "populate"}

\* Model.init_resources
init_resources(sim, fill) ==
    LET v   == sim.variant
        res == CASE fill = "populate_store" -> populate_store(v, sim.store, inp.n_cubicles)
                 [] fill = "loop" -> init_resources_loop(v, sim.store, inp.n_cubicles)
                 [] v = "opt"     -> PS_populate(sim.store, inp.n_cubicles)
                 [] OTHER         -> VS_populate(sim.store, inp.n_cubicles)
    IN  IF v \in StoreVariants
        THEN [ApplyFired([sim EXCEPT !.store = res.st], res.fired) EXCEPT !.phase = "ready"]
        ELSE [sim EXCEPT !.store = NewResource(inp.n_cubicles), !.phase = "ready"]

\* Model.__init__: the environment and the resources
ModelInit(s) ==
    /\ Active(s)
    /\ sims[s].phase = "new"
    /\ \E fill \in Fills(sims[s].variant) :
        sims' = [sims EXCEPT ![s] = init_resources(sims[s], fill)]
    /\ UNCHANGED <<inp, storeVars, logVars, prepVars>>

\* Model.run: env.process(generator_patient_arrivals()), then env.run
ModelRun(s) ==
    /\ Active(s)
    /\ sims[s].phase = "ready"
    /\ sims' = [sims EXCEPT ![s] =
                    Sched([sims[s] EXCEPT !.phase = "run", !.pc[0] = "start"],
                          "init", 0, URGENT, 0)]
    /\ UNCHANGED <<inp, storeVars, logVars, prepVars>>

\* the next event of side s is of this kind
Next_is(s, kind) ==
    /\ Active(s)
    /\ sims[s].phase = "run"
    /\ sims[s].queue # <<>>
    /\ HeadEv(sims[s]).kind = kind

\* Initialize of a process: run it up to its first wait
StepInitialize(s) ==
    /\ Next_is(s, "init")
    /\ LET sim == Pop(sims[s])
           p   == HeadEv(sims[s]).p
       IN  sims' = [sims EXCEPT ![s] =
                        IF p = 0 THEN generator_patient_arrivals(sim)
                        ELSE attend_clinic_arrive(sim, p)]
    /\ UNCHANGED <<inp, storeVars, logVars, prepVars>>

\* the inter-arrival timeout: the generator goes round its loop
StepArrival(s) ==
    /\ Next_is(s, "arr")
    /\ sims' = [sims EXCEPT ![s] = generator_patient_arrivals(Pop(sims[s]))]
    /\ UNCHANGED <<inp, storeVars, logVars, prepVars>>

\* a get / request event is processed: its callbacks resume the waiting
\* patient or check its condition; an abandoned event has no listener
StepGet(s) ==
    /\ Next_is(s, "get")
    /\ LET p   == HeadEv(sims[s]).p
           sim == [Pop(sims[s]) EXCEPT !.gst[p] = "processed"]
       IN  sims' = [sims EXCEPT ![s] =
                        CASE sim.pc[p] = "wait_req"  -> attend_clinic_begin(sim, p)
                          [] sim.pc[p] = "wait_race" -> Condition_check(sim, p)
                          [] OTHER -> sim]
    /\ UNCHANGED <<inp, storeVars, logVars, prepVars>>

\* a put / release event is processed: its callback serves the queue
\* (the pre-triggered event VidigiPriorityStore.put returns has no callback)
StepPut(s) ==
    /\ Next_is(s, "put")
    /\ LET sim == Pop(sims[s])
           res == CASE sim.variant \in {"fifo", "legacy"} -> ST_trigger_get(sim.store)
                    [] sim.variant \in {"res", "pres"}    -> RS_trigger_put(sim.store)
                    [] OTHER -> [st |-> sim.store, fired |-> <<>>]
       IN  sims' = [sims EXCEPT ![s] = ApplyFired([sim EXCEPT !.store = res.st], res.fired)]
    /\ UNCHANGED <<inp, storeVars, logVars, prepVars>>

\* the treatment timeout
StepTreat(s) ==
    /\ Next_is(s, "treat")
    /\ sims' = [sims EXCEPT ![s] = attend_clinic_complete(Pop(sims[s]), HeadEv(sims[s]).p)]
    /\ UNCHANGED <<inp, storeVars, logVars, prepVars>>

\* the timeout of the race
StepRace(s) ==
    /\ Next_is(s, "race")
    /\ sims' = [sims EXCEPT ![s] = Condition_check(Pop(sims[s]), HeadEv(sims[s]).p)]
    /\ UNCHANGED <<inp, storeVars, logVars, prepVars>>

\* the condition req | timeout is processed: req is in its value if the
\* get event has been processed by now
StepCond(s) ==
    /\ Next_is(s, "cond")
    /\ LET p   == HeadEv(sims[s]).p
           sim == [Pop(sims[s]) EXCEPT !.cst[p] = "processed"]
       IN  sims' = [sims EXCEPT ![s] =
                        IF sim.gst[p] = "processed"
                        THEN attend_clinic_begin(sim, p)
                        ELSE attend_clinic_give_up(sim, p)]
    /\ UNCHANGED <<inp, storeVars, logVars, prepVars>>

\* the event of a process that ended normally: nothing listens
StepEnd(s) ==
    /\ Next_is(s, "end")
    /\ sims' = [sims EXCEPT ![s] = Pop(sims[s])]
    /\ UNCHANGED <<inp, storeVars, logVars, prepVars>>

\* the event of a process that ended with an exception: env.step raises
\* it and the run stops
StepFail(s) ==
    /\ Next_is(s, "fail")
    /\ sims' = [sims EXCEPT ![s] = [Pop(sims[s]) EXCEPT !.phase = "crashed"]]
    /\ UNCHANGED <<inp, storeVars, logVars, prepVars>>

Next ==
    \E s \in Sides :
        \/ ModelInit(s)
        \/ ModelRun(s)
        \/ StepInitialize(s)
        \/ StepArrival(s)
        \/ StepGet(s)
        \/ StepPut(s)
        \/ StepTreat(s)
        \/ StepRace(s)
        \/ StepCond(s)
        \/ StepEnd(s)
        \/ StepFail(s)

Spec == Init /\ [][Next]_vars

---------------------------------------------------------------------------
(* Claims about the clinics (checked under Spec).                          *)

StoreSides == {s \in Sides : sims[s].variant \in StoreVariants /\ sims[s].phase # "new"}

\* the get of patient p was completed with an item it has not given back
Granted(sim, p) == sim.gst[p] \in {"triggered", "processed"} /\ sim.back[p] = 0

\* patient p is an in-flight requester: it is inside its request scope
\* (between get and put, for get-then-put)
InScope(sim, p) == sim.pc[p] \in {"wait_req", "wait_race", "treat"}

Held(sim) == {p \in Patients : Granted(sim, p) /\ InScope(sim, p)}

\* C1: for every store variant populated with N resources, in every
\* reachable state the number of items in the store plus the number of
\* items held by in-flight requesters is N, also after a scope was left
\* (timeout race, exception) before its get was granted.
C1_Conservation ==
    \A s \in StoreSides :
        Len(sims[s].store.items) + Cardinality(Held(sims[s])) = inp.n_cubicles

\* C2: an item is held by at most one entity: between the grant of item k
\* to an entity and its return, no other get is completed with k, and k is
\* not in the store.
C2_OneHolder ==
    \A s \in StoreSides :
        /\ \A p, q \in Patients :
            (p # q /\ Granted(sims[s], p) /\ Granted(sims[s], q))
                => sims[s].gval[p] # sims[s].gval[q]
        /\ \A p \in Patients :
            Granted(sims[s], p) => sims[s].gval[p] \notin Range(sims[s].store.items)

\* two entities hold the two items at once, one of them an item that went
\* round: it was given back by a third entity before
C2_Witness ==
    \E s \in StoreSides : \E p, q, r \in Patients :
        /\ p # q /\ Granted(sims[s], p) /\ Granted(sims[s], q)
        /\ sims[s].back[r] = 1 /\ sims[s].gval[r] = sims[s].gval[p]

\* C3: for a scoped request on VidigiStore or VidigiPriorityStore, every
\* item with which the get event is completed is given back exactly once on
\* every exit path of the scope; a scope whose get never completed gives
\* nothing back.
C3_ReturnedOnce ==
    \A s \in Sides : sims[s].variant \in ScopedVariants =>
        \A p \in Patients :
            /\ sims[s].back[p] <= 1
            /\ sims[s].gst[p] \in {"none", "pending"} => sims[s].back[p] = 0
            /\ (sims[s].pc[p] \in {"done", "failed"}
                    /\ sims[s].gst[p] \in {"triggered", "processed"})
                => sims[s].back[p] = 1

\* p goes before q in a priority store: smaller priority value, or the
\* same priority and issued earlier (patients issue in order of their id)
GoesBefore(p, q) ==
    \/ inp.prio[p] < inp.prio[q]
    \/ inp.prio[p] = inp.prio[q] /\ p < q

\* C4: in VidigiPriorityStoreLegacy and VidigiPriorityStore, whenever an
\* item is granted to a request, every other request pending at that moment
\* has a larger priority value, or the same priority and a later issue.
C4_PriorityOrder ==
    [][\A s \in Sides : sims[s].variant \in {"legacy", "opt"} =>
        \A p, q \in Patients :
            (/\ p # q
             /\ sims[s].gst[p] \in {"none", "pending"}
             /\ sims'[s].gst[p] = "triggered"
             /\ sims'[s].gst[q] = "pending")
                => GoesBefore(p, q)]_vars

\* a priority-1 request has been granted past a priority-2 request that
\* was issued before it and still waits
C4_Witness ==
    \E s \in Sides : \E p, q \in Patients :
        /\ sims[s].variant \in {"legacy", "opt"}
        /\ q < p /\ inp.prio[p] < inp.prio[q]
        /\ sims[s].gst[p] = "triggered" /\ sims[s].gst[q] = "pending"
        /\ \E i \in DOMAIN sims[s].log :
            sims[s].log[i].e = p /\ sims[s].log[i].ev = "treatment_wait_begins"
                /\ sims[s].log[i].t < sims[s].now

BothFinished == Finished(sims[1]) /\ Finished(sims[2])

\* a patient of this log waited: its treatment began after it arrived
SomeoneWaited(log) ==
    \E i, j \in DOMAIN log :
        /\ log[i].e = log[j].e
        /\ log[i].ev = "arrival" /\ log[j].ev = "treatment_begins"
        /\ log[i].t < log[j].t

\* C5: on the same arrival times and service durations, the clinic on a
\* VidigiStore through scoped requests and the clinic on a native
\* capacity-N resource write the same event log once resource_id is
\* dropped, for every schedule.
C5_FifoStoreIsResource ==
    (inp.pair = <<"res", "fifo">> /\ BothFinished)
        => DropRid(sims[1].log) = DropRid(sims[2].log)

C5_Witness ==
    /\ inp.pair = <<"res", "fifo">> /\ BothFinished
    /\ SomeoneWaited(sims[2].log)
    /\ Len(sims[2].log) = 5 * MaxPatients

\* C6: on the same prioritised requests and releases at the same times,
\* same-instant operations included, VidigiPriorityStoreLegacy and
\* VidigiPriorityStore write identical event logs.
C6_LegacyIsOptimized ==
    (inp.pair = <<"legacy", "opt">> /\ BothFinished) => sims[1].log = sims[2].log

\* C7: on the same prioritised arrivals and service durations, the clinic
\* on VidigiPriorityStore and the clinic on a native priority resource
\* write the same event log once resource_id is dropped, for every
\* schedule.
C7_OptimizedIsPriorityResource ==
    (inp.pair = <<"pres", "opt">> /\ BothFinished)
        => DropRid(sims[1].log) = DropRid(sims[2].log)

\* C8: populate_store(n, ...) and the stores' populate(n) leave the store
\* with the items 1..n in creation order, the very state the one-by-one
\* loop leaves, so the run that follows is the same.
C8_PopulateIsLoop ==
    [][\A s \in Sides :
        (sims[s].variant \in StoreVariants /\ sims[s].phase = "new"
            /\ sims'[s].phase = "ready")
        => /\ sims'[s].store.items = [i \in 1..inp.n_cubicles |-> i]
           /\ sims'[s] = init_resources(sims[s], "loop")]_vars

C8_Witness ==
    \E s \in Sides :
        /\ sims[s].variant \in StoreVariants /\ sims[s].phase = "ready"
        /\ sims[s].store.items = <<1, 2>>

---------------------------------------------------------------------------
(* The event logger (vidigi/utils.py: BaseEvent, EventLogger).             *)
(*                                                                         *)
(* Python values are tagged: I(n) an int, S(s) a str, None, and Absent for *)
(* a key that is not in a keyword dictionary.  A keyword dictionary        *)
(* (event_data, extra_fields) is a record over its possible keys.          *)

I(n)   == [tag |-> "int", n |-> n]
S(s)   == [tag |-> "str", s |-> s]
None   == [tag |-> "None"]
Absent == [tag |-> "absent"]

IsInt(v) == v.tag = "int"
IsStr(v) == v.tag = "str"

RECOGNIZED_EVENT_TYPES ==
    {S("arrival_departure"), S("resource_use"), S("resource_use_end"), S("queue")}

\* the strings int() accepts, with their values
NumericStrings == {<<"7", 7>>}

\* validation of Optional[int] (lax mode): None and ints pass, a numeric
\* string is converted, anything else is a validation error
OptionalInt(v) ==
    IF v = None \/ IsInt(v) THEN [ok |-> TRUE, v |-> v]
    ELSE IF IsStr(v) /\ \E ns \in NumericStrings : ns[1] = v.s
    THEN [ok |-> TRUE, v |-> I((CHOOSE ns \in NumericStrings : ns[1] = v.s)[2])]
    ELSE [ok |-> FALSE, v |-> v]

\* BaseEvent.warn_if_unrecognized_event_type (runs before validation)
warn_if_unrecognized_event_type(v) ==
    IF v \notin RECOGNIZED_EVENT_TYPES THEN {"unrecognized_event_type"} ELSE {}

\* BaseEvent.warn_if_missing_resource_id (runs before validation, on a
\* resource_id that was passed; a field left to its default is not validated)
warn_if_missing_resource_id(etype, v) ==
    IF etype \in {S("resource_use"), S("resource_use_end")}
    THEN IF v = None THEN {"missing_resource_id"}
         ELSE IF ~IsInt(v) THEN {"resource_id_not_int"} ELSE {}
    ELSE {}

\* BaseEvent.validate_event_logic (runs after the fields validated)
validate_event_logic_any(event_type, event) == TRUE

validate_event_logic(event_type, event) ==
    event_type = S("arrival_departure") => event \in {S("arrival"), S("depart")}

\* BaseEvent(**event_data) followed by model_dump(): the required fields,
\* the field validators in field order, the model validator.  The result
\* says whether construction succeeded, which warnings were raised on the
\* way, and the dumped record.
BaseEvent(d) ==
    LET required_ok ==
            /\ d.entity_id # Absent
            /\ IsStr(d.event_type)
            /\ IsStr(d.event)
            /\ IsInt(d.time)
        w1  == IF d.event_type # Absent
               THEN warn_if_unrecognized_event_type(d.event_type) ELSE {}
        w2  == IF d.resource_id # Absent
               THEN warn_if_missing_resource_id(d.event_type, d.resource_id) ELSE {}
        rid == IF d.resource_id = Absent THEN [ok |-> TRUE, v |-> None]
               ELSE OptionalInt(d.resource_id)
        run == IF d.run_number = Absent THEN [ok |-> TRUE, v |-> None]
               ELSE OptionalInt(d.run_number)
        ok  == /\ required_ok /\ rid.ok /\ run.ok
               /\ validate_event_logic(d.event_type, d.event)
    IN  [ok |-> ok, warnings |-> w1 \cup w2,
         rec |-> [entity_id |-> d.entity_id, event_type |-> d.event_type,
                  event |-> d.event, time |-> d.time,
                  run_number |-> run.v, resource_id |-> rid.v]]

\* EventLogger(env=..., run_number=...): env is NoEnv or the clock value
NoEnv == None

NewLogger(env, run_number) == [env |-> env, run_number |-> run_number, log |-> <<>>]

\* the result of a call: the logger after it, how it ended ("ok" or the
\* exception raised), the warnings raised, what it returned or wrote
Done(lg, outcome, warnings, ret) ==
    [lg |-> lg, outcome |-> outcome, warnings |-> warnings, ret |-> ret]

\* log_event: event_data["time"] = self.env.now when "time" is not given
\* (first a variant that stamps the start of the run)
fill_time_zero(lg, event_data) ==
    IF event_data.time = Absent THEN [event_data EXCEPT !.time = I(0)] ELSE event_data

fill_time(lg, event_data) ==
    IF event_data.time = Absent THEN [event_data EXCEPT !.time = lg.env] ELSE event_data

\* EventLogger.log_event(**event_data)
\* (first a variant that puts the new record in front of the log)
log_event_front(lg, event_data) ==
    IF event_data.time = Absent /\ lg.env = NoEnv
    THEN Done(lg, "ValueError", {}, None)
    ELSE LET d1 == fill_time(lg, event_data)
             d2 == IF d1.run_number = Absent /\ lg.run_number # None
                   THEN [d1 EXCEPT !.run_number = lg.run_number] ELSE d1
             ev == BaseEvent(d2)
         IN  IF ev.ok
             THEN Done([lg EXCEPT !.log = <<ev.rec>> \o @], "ok", ev.warnings, None)
             ELSE Done(lg, "ValueError", ev.warnings, None)

log_event(lg, event_data) ==
    IF event_data.time = Absent /\ lg.env = NoEnv
    THEN Done(lg, "ValueError", {}, None)
    ELSE LET d1 == fill_time(lg, event_data)
             d2 == IF d1.run_number = Absent /\ lg.run_number # None
                   THEN [d1 EXCEPT !.run_number = lg.run_number] ELSE d1
             ev == BaseEvent(d2)
         IN  IF ev.ok
             THEN Done([lg EXCEPT !.log = Append(@, ev.rec)], "ok", ev.warnings, None)
             ELSE Done(lg, "ValueError", ev.warnings, None)

\* event_data.update(extra_fields): the keys passed in extra_fields replace
\* the emitter's own
Update(event_data, extra_fields) ==
    [k \in DOMAIN event_data |->
        IF k \in DOMAIN extra_fields /\ extra_fields[k] # Absent
        THEN extra_fields[k] ELSE event_data[k]]

\* {k: v for k, v in event_data.items() if v is not None}
DropNone(event_data) ==
    [k \in DOMAIN event_data |-> IF event_data[k] = None THEN Absent ELSE event_data[k]]

\* the dictionary a typed emitter builds before update / filter
EmitterData(entity_id, event_type, event, time, resource_id, run_number) ==
    [entity_id |-> entity_id, event_type |-> S(event_type), event |-> event,
     time |-> time, run_number |-> run_number, resource_id |-> resource_id]

\* EventLogger.log_arrival(entity_id=, time=None, run_number=None, **extra_fields)
log_arrival(lg, entity_id, time, run_number, extra_fields) ==
    log_event(lg, DropNone(Update(
        EmitterData(entity_id, "arrival_departure", S("arrival"), time, Absent, run_number),
        extra_fields)))

\* EventLogger.log_departure(...)
log_departure(lg, entity_id, time, run_number, extra_fields) ==
    log_event(lg, DropNone(Update(
        EmitterData(entity_id, "arrival_departure", S("depart"), time, Absent, run_number),
        extra_fields)))

\* EventLogger.log_queue(entity_id=, event=, ...)
log_queue(lg, entity_id, event, time, run_number, extra_fields) ==
    log_event(lg, DropNone(Update(
        EmitterData(entity_id, "queue", event, time, Absent, run_number),
        extra_fields)))

\* EventLogger.log_resource_use_start(entity_id=, resource_id=, ...)
log_resource_use_start(lg, entity_id, resource_id, time, run_number, extra_fields) ==
    log_event(lg, DropNone(Update(
        EmitterData(entity_id, "resource_use", S("start"), time, resource_id, run_number),
        extra_fields)))

\* EventLogger.log_resource_use_end(entity_id=, resource_id=, ...)
log_resource_use_end(lg, entity_id, resource_id, time, run_number, extra_fields) ==
    log_event(lg, DropNone(Update(
        EmitterData(entity_id, "resource_use_end", S("end"), time, resource_id, run_number),
        extra_fields)))

\* EventLogger.to_json_string(): json.dumps(self._log)
to_json_string(lg) == Done(lg, "ok", {}, [json |-> lg.log])

\* EventLogger.to_json(path_or_buffer): refuses an empty log, else writes
\* to_json_string()
to_json(lg) ==
    IF lg.log = <<>> THEN Done(lg, "ValueError", {}, None)
    ELSE Done(lg, "ok", {}, [written |-> to_json_string(lg).ret])

\* EventLogger.to_csv(path_or_buffer): refuses an empty log, else writes
\* the dataframe of the log
to_csv(lg) ==
    IF lg.log = <<>> THEN Done(lg, "ValueError", {}, None)
    ELSE Done(lg, "ok", {}, [written |-> [csv |-> lg.log]])

\* [event for event in self._log if event.get(field) == value]
\* (first a variant that keeps the events that differ)
FilterOthers(log, field, value) ==
    SelectSeq(log, LAMBDA event : event[field] # value)

Filter(log, field, value) ==
    SelectSeq(log, LAMBDA event : event[field] = value)

\* EventLogger.get_events_by_run / _entity / _event_type / _event_name
get_events_by_run(lg, run_number) ==
    Done(lg, "ok", {}, Filter(lg.log, "run_number", run_number))

get_events_by_entity(lg, entity_id) ==
    Done(lg, "ok", {}, Filter(lg.log, "entity_id", entity_id))

get_events_by_event_type(lg, event_type) ==
    Done(lg, "ok", {}, Filter(lg.log, "event_type", event_type))

get_events_by_event_name(lg, event) ==
    Done(lg, "ok", {}, Filter(lg.log, "event", event))

---------------------------------------------------------------------------
(* SpecLogger: one EventLogger, its calls one at a time.                   *)

\* entries the log may hold
MaxLog == 1
\* how far the bound environment's clock runs
MaxClock == 1

Entities    == {I(1), I(2)}
EventTypes  == RECOGNIZED_EVENT_TYPES \cup {S("custom")}
EventNames  == {S("arrival"), S("waiting")}
GivenTimes  == {I(3)}
ResourceIds == {None, I(1), S("7"), S("nurse")}
RunNumbers  == {I(2)}

\* the keyword dictionaries log_event is called with: every event_type
\* with every event name, with and without a time; every kind of
\* resource_id on resource and non-resource events; a run_number
EventData ==
    [entity_id : {I(1)}, event_type : EventTypes, event : EventNames,
     time : GivenTimes \cup {Absent}, run_number : {Absent}, resource_id : {Absent}]
    \cup
    [entity_id : {I(1)}, event_type : {S("resource_use"), S("resource_use_end"), S("queue")},
     event : {S("waiting")}, time : GivenTimes, run_number : {Absent},
     resource_id : ResourceIds]
    \cup
    [entity_id : Entities, event_type : {S("queue")}, event : {S("waiting")},
     time : GivenTimes, run_number : RunNumbers, resource_id : {Absent}]

\* what a caller passes through **extra_fields
ExtraFields ==
    {[event_type |-> Absent, event |-> Absent],
     [event_type |-> S("queue"), event |-> Absent],
     [event_type |-> Absent, event |-> S("depart")],
     [event_type |-> Absent, event |-> S("waiting")]}

NoExtra == [event_type |-> Absent, event |-> Absent]

Call(op, args, res) ==
    [op |-> op, args |-> args, outcome |-> res.outcome,
     warnings |-> res.warnings, ret |-> res.ret]

Constructed == [op |-> "new", args |-> None, outcome |-> "ok", warnings |-> {}, ret |-> None]

InitLogger ==
    /\ logger \in {NewLogger(env, rn) : env \in {NoEnv, I(0)}, rn \in {None, I(1)}}
    /\ lcall = Constructed
    /\ pstore = NewStore(Unbounded)
    /\ reqs = <<>>
    /\ nitems = 0
    /\ trig = <<>>
    /\ last = NoCall
    /\ sims = <<>>
    /\ inp = <<>>
    /\ prep = <<>>

\* the call ends: the logger and the record of the call
Ends(op, args, res) ==
    /\ logger' = res.lg
    /\ lcall' = Call(op, args, res)
    /\ UNCHANGED <<storeVars, simVars, prepVars>>

\* the simulation moves on: env.now advances
LTick ==
    /\ logger.env # NoEnv
    /\ logger.env.n < MaxClock
    /\ logger' = [logger EXCEPT !.env = I(@.n + 1)]
    /\ lcall' = [Constructed EXCEPT !.op = "tick"]
    /\ UNCHANGED <<storeVars, simVars, prepVars>>

LLogEvent ==
    /\ Len(logger.log) < MaxLog
    /\ \E d \in EventData : Ends("log_event", d, log_event(logger, d))

LArrival ==
    /\ Len(logger.log) < MaxLog
    /\ \E e \in {I(1)}, t \in GivenTimes \cup {None}, x \in ExtraFields :
        Ends("log_arrival", [entity_id |-> e, time |-> t, extra |-> x],
             log_arrival(logger, e, t, None, x))

LDeparture ==
    /\ Len(logger.log) < MaxLog
    /\ \E e \in {I(1)}, t \in GivenTimes \cup {None}, x \in ExtraFields :
        Ends("log_departure", [entity_id |-> e, time |-> t, extra |-> x],
             log_departure(logger, e, t, None, x))

LQueue ==
    /\ Len(logger.log) < MaxLog
    /\ \E e \in {I(1)}, n \in EventNames, t \in GivenTimes \cup {None},
          x \in {y \in ExtraFields : y.event = Absent} :
        Ends("log_queue", [entity_id |-> e, event |-> n, time |-> t, extra |-> x],
             log_queue(logger, e, n, t, None, x))

LResourceUseStart ==
    /\ Len(logger.log) < MaxLog
    /\ \E e \in {I(1)}, r \in ResourceIds, t \in {None}, x \in ExtraFields :
        Ends("log_resource_use_start",
             [entity_id |-> e, resource_id |-> r, time |-> t, extra |-> x],
             log_resource_use_start(logger, e, r, t, None, x))

LResourceUseEnd ==
    /\ Len(logger.log) < MaxLog
    /\ \E e \in {I(1)}, r \in ResourceIds, t \in {None}, x \in ExtraFields :
        Ends("log_resource_use_end",
             [entity_id |-> e, resource_id |-> r, time |-> t, extra |-> x],
             log_resource_use_end(logger, e, r, t, None, x))

LToJsonString ==
    \E lg \in {logger} : Ends("to_json_string", None, to_json_string(lg))

LToJson ==
    \E lg \in {logger} : Ends("to_json", None, to_json(lg))

LToCsv ==
    \E lg \in {logger} : Ends("to_csv", None, to_csv(lg))

NextLogger ==
    \/ LTick
    \/ LLogEvent
    \/ LArrival
    \/ LDeparture
    \/ LQueue
    \/ LResourceUseStart
    \/ LResourceUseEnd
    \/ LToJsonString
    \/ LToJson
    \/ LToCsv

SpecLogger == InitLogger /\ [][NextLogger]_vars

---------------------------------------------------------------------------
(* Claims about the logger (checked under SpecLogger).                     *)

LastOf(log) == log[Len(log)]

\* the step is a call of log_event, with this keyword dictionary
LogEventStep(d) == lcall'.op = "log_event" /\ lcall'.args = d

\* a time is at hand for the call: given, or read from a bound environment
TimeAtHand(d) == d.time # Absent \/ logger.env # NoEnv

Appended     == lcall'.outcome = "ok" /\ Len(logger'.log) = Len(logger.log) + 1
NothingAdded == logger'.log = logger.log

\* C11: constructing or logging an event with event_type
\* 'arrival_departure' and an event other than 'arrival' or 'depart' fails
\* with an invalid-input error and appends nothing.
C11_ArrivalDepartureChecked ==
    [][\A d \in EventData :
        (/\ LogEventStep(d)
         /\ d.event_type = S("arrival_departure")
         /\ d.event \notin {S("arrival"), S("depart")})
        => /\ ~BaseEvent(fill_time(logger, d)).ok
           /\ lcall'.outcome = "ValueError"
           /\ NothingAdded]_vars

\* an arrival_departure 'waiting' event with a time was refused on a logger
\* that accepts events
C11_Witness ==
    /\ lcall.op = "log_event"
    /\ lcall.args.event_type = S("arrival_departure")
    /\ lcall.args.event = S("waiting")
    /\ lcall.args.time # Absent
    /\ lcall.outcome = "ValueError"
    /\ logger.log = <<>>

\* the records a resource event is logged with when no resource_id comes
NoResourceId(d) ==
    /\ d.event_type \in {S("resource_use"), S("resource_use_end")}
    /\ d.resource_id \in {Absent, None}

\* C12: logging an event with event_type 'resource_use' (or
\* 'resource_use_end') and no resource_id succeeds, the record is appended,
\* and a warning about the missing resource_id is raised.
C12_MissingResourceIdWarns ==
    [][\A d \in EventData :
        (LogEventStep(d) /\ NoResourceId(d) /\ TimeAtHand(d))
        => /\ Appended
           /\ "missing_resource_id" \in lcall'.warnings]_vars

\* C13: an unrecognized event_type, or a missing or non-integer
\* resource_id on a resource_use / resource_use_end event, never blocks
\* logging: log_event still appends the event.
C13_WarningsNeverBlock ==
    [][\A d \in EventData :
        (/\ LogEventStep(d)
         /\ TimeAtHand(d)
         /\ \/ d.event_type \notin RECOGNIZED_EVENT_TYPES
            \/ NoResourceId(d)
            \/ /\ d.event_type \in {S("resource_use"), S("resource_use_end")}
               /\ ~IsInt(d.resource_id))
        => Appended]_vars

LoggingOps ==
    {"log_event", "log_arrival", "log_departure", "log_queue",
     "log_resource_use_start", "log_resource_use_end"}

\* the call was made without a time
WithoutTime(call) == call.op \in LoggingOps /\ call.args.time \in {Absent, None}

\* C14: log_event called without a time records the bound environment's
\* clock value as the event's time; with no environment bound it fails
\* with a missing-data error and appends nothing.  The typed emitters
\* called without time do the same.
C14_TimeFromEnv ==
    [][WithoutTime(lcall') =>
        IF logger.env = NoEnv
        THEN lcall'.outcome = "ValueError" /\ NothingAdded
        ELSE lcall'.outcome = "ok" =>
                /\ Len(logger'.log) = Len(logger.log) + 1
                /\ LastOf(logger'.log).time = logger.env]_vars

\* an emitter called without time, after the clock moved, logged the
\* clock's value
C14_Witness ==
    /\ lcall.op = "log_arrival" /\ lcall.args.time = None
    /\ lcall.outcome = "ok"
    /\ logger.env = I(1)
    /\ logger.log # <<>> /\ LastOf(logger.log).time = I(1)

\* the fixed (event_type, event) pair of each typed emitter; log_queue's
\* event is the caller's event name
FixedPair(call) ==
    CASE call.op = "log_arrival"   -> <<S("arrival_departure"), S("arrival")>>
      [] call.op = "log_departure" -> <<S("arrival_departure"), S("depart")>>
      [] call.op = "log_queue"     -> <<S("queue"), call.args.event>>
      [] call.op = "log_resource_use_start" -> <<S("resource_use"), S("start")>>
      [] call.op = "log_resource_use_end"   -> <<S("resource_use_end"), S("end")>>

\* C15: each typed emitter appends a record whose (event_type, event) is
\* its fixed pair, whatever other keyword fields the caller passes through.
C15_EmitterPair ==
    (lcall.op \in LoggingOps \ {"log_event"} /\ lcall.outcome = "ok")
        => /\ logger.log # <<>>
           /\ <<LastOf(logger.log).event_type, LastOf(logger.log).event>> = FixedPair(lcall)

\* C16: on a logger whose log has no entries, each of to_csv, to_json and
\* to_json_string fails with an empty-log error and produces no output.
C16_ExportRefusesEmptyLog ==
    (lcall.op \in {"to_csv", "to_json", "to_json_string"} /\ logger.log = <<>>)
        => lcall.outcome = "ValueError" /\ lcall.ret = None

---------------------------------------------------------------------------
(* SpecQuery: the get_events_by_* filters on a logger that has logged a    *)
(* sequence of events.                                                     *)

\* events logged before the filters are applied
MaxQueryLog == 3

\* the events logged: two entities, two kinds of event, with and without
\* a run_number of their own
QueryEvents ==
    {[entity_id |-> e, event_type |-> p[1], event |-> p[2], time |-> I(3),
      run_number |-> r, resource_id |-> Absent] :
        e \in Entities, r \in RunNumbers \cup {Absent},
        p \in {<<S("arrival_departure"), S("arrival")>>, <<S("queue"), S("waiting")>>}}

\* the logger after log_event was called with each dictionary in turn
RECURSIVE LogAll(_, _)
LogAll(lg, events) ==
    IF events = <<>> THEN lg
    ELSE LogAll(log_event(lg, Head(events)).lg, Tail(events))

InitQuery ==
    /\ \E n \in 0..MaxQueryLog, rn \in {None, I(1)} :
        \E events \in [1..n -> QueryEvents] :
            logger = LogAll(NewLogger(NoEnv, rn), events)
    /\ lcall = Constructed
    /\ pstore = NewStore(Unbounded)
    /\ reqs = <<>>
    /\ nitems = 0
    /\ trig = <<>>
    /\ last = NoCall
    /\ sims = <<>>
    /\ inp = <<>>
    /\ prep = <<>>

QByRun ==
    \E run_number \in {None, I(1), I(2)} :
        Ends("get_events_by_run", [field |-> "run_number", value |-> run_number],
             get_events_by_run(logger, run_number))

QByEntity ==
    \E entity_id \in Entities \cup {I(3)} :
        Ends("get_events_by_entity", [field |-> "entity_id", value |-> entity_id],
             get_events_by_entity(logger, entity_id))

QByEventType ==
    \E event_type \in {S("arrival_departure"), S("queue"), S("resource_use")} :
        Ends("get_events_by_event_type", [field |-> "event_type", value |-> event_type],
             get_events_by_event_type(logger, event_type))

QByEventName ==
    \E event \in {S("arrival"), S("waiting"), S("depart")} :
        Ends("get_events_by_event_name", [field |-> "event", value |-> event],
             get_events_by_event_name(logger, event))

\* what log_event is called with on a logger that holds events: the events
\* of QueryEvents, an arrival_departure event with another event name, and
\* an event without a time
LaterEvents ==
    QueryEvents
    \cup
    {[entity_id |-> I(1), event_type |-> S("arrival_departure"), event |-> S("waiting"),
      time |-> I(3), run_number |-> Absent, resource_id |-> Absent],
     [entity_id |-> I(1), event_type |-> S("queue"), event |-> S("waiting"),
      time |-> Absent, run_number |-> Absent, resource_id |-> Absent]}

QLogEvent ==
    /\ Len(logger.log) < MaxQueryLog
    /\ \E d \in LaterEvents : Ends("log_event", d, log_event(logger, d))

NextQuery ==
    \/ QByRun
    \/ QByEntity
    \/ QByEventType
    \/ QByEventName
    \/ QLogEvent

SpecQuery == InitQuery /\ [][NextQuery]_vars

QueryOps ==
    {"get_events_by_run", "get_events_by_entity",
     "get_events_by_event_type", "get_events_by_event_name"}

\* the positions of the log whose field equals the value
Matching(log, field, value) == {j \in DOMAIN log : log[j][field] = value}

C28_AppendOnly ==
    [][lcall'.op = "log_event" =>
        /\ lcall'.outcome \in {"ok", "ValueError"}
        /\ lcall'.outcome = "ok" =>
            /\ Len(logger'.log) = Len(logger.log) + 1
            /\ SubSeq(logger'.log, 1, Len(logger.log)) = logger.log
            /\ LastOf(logger'.log).event = lcall'.args.event
            /\ LastOf(logger'.log).entity_id = lcall'.args.entity_id
        /\ lcall'.outcome # "ok" => logger'.log = logger.log]_vars

\* a log_event call succeeded on a logger that held two records
C28_Witness ==
    /\ lcall.op = "log_event"
    /\ lcall.outcome = "ok"
    /\ Len(logger.log) = 3
    /\ LastOf(logger.log).entity_id = lcall.args.entity_id
    /\ logger.log[1] # logger.log[3]

---------------------------------------------------------------------------
(* The snapshot reshaping (vidigi/prep.py: reshape_for_animations).        *)
(*                                                                         *)
(* An event log is a sequence of [entity, event_type, event, time]; the    *)
(* position of an entry is its dataframe index.  A reshaped row is         *)
(* [entity, event_type, event, time, index, rank, additional,              *)
(* snapshot_time], with additional = NoValue where the column is empty.    *)

NoValue == -1

\* the positions of a set, in increasing order of key (keys are distinct)
RECURSIVE SortedBy(_, _)
SortedBy(set, key) ==
    IF set = {} THEN <<>>
    ELSE LET first == CHOOSE i \in set : \A j \in set : key[i] <= key[j]
         IN  <<first>> \o SortedBy(set \ {first}, key)

RECURSIVE SumOf(_, _)
SumOf(set, val) ==
    IF set = {} THEN 0
    ELSE LET i == CHOOSE j \in set : TRUE IN val[i] + SumOf(set \ {i}, val)

\* pivot_table(values=time, index=[entity, event_type], columns=event):
\* the entries aggregated in one cell (the cell holds their mean)
PivotCell(event_log, entity, event_type, event) ==
    {i \in DOMAIN event_log :
        /\ event_log[i].entity = entity
        /\ event_log[i].event_type = event_type
        /\ event_log[i].event = event}

\* the pivoted log has a column for every event name of the log
HasColumn(event_log, event) == \E i \in DOMAIN event_log : event_log[i].event = event

\* pivoted_log[event] <= t  and  pivoted_log[event] >= t  on a cell: the
\* mean of the cell's times against t; an empty cell (NaN) compares False
CellLE(event_log, cell, t) ==
    cell # {} /\ SumOf(cell, [i \in DOMAIN event_log |-> event_log[i].time])
                    <= t * Cardinality(cell)

CellGE(event_log, cell, t) ==
    cell # {} /\ SumOf(cell, [i \in DOMAIN event_log |-> event_log[i].time])
                    >= t * Cardinality(cell)

\* current_entities_in_moment: arrived at or before t, and departing at or
\* after t or never
Present(event_log, t) ==
    {e \in {event_log[i].entity : i \in DOMAIN event_log} :
        \E ty \in {event_log[i].event_type : i \in DOMAIN event_log} :
            /\ CellLE(event_log, PivotCell(event_log, e, ty, "arrival"), t)
            /\ \/ CellGE(event_log, PivotCell(event_log, e, ty, "depart"), t)
               \/ PivotCell(event_log, e, ty, "depart") = {}}

\* the latest event of each present entity at or before t: sort by
\* (time, index), group by entity, tail(1); the positions, in sorted order
\* (first a variant that keeps the earliest of the events of the latest time)
MostRecent_first_of_ties(event_log, t) ==
    LET seen == {i \in DOMAIN event_log :
                    /\ event_log[i].entity \in Present(event_log, t)
                    /\ event_log[i].time <= t}
        key  == [i \in DOMAIN event_log |->
                    event_log[i].time * (Len(event_log) + 1) + (Len(event_log) - i)]
        latest == {i \in seen : \A j \in seen :
                    event_log[j].entity = event_log[i].entity => key[j] <= key[i]}
    IN  SortedBy(latest, key)

MostRecent(event_log, t) ==
    LET seen == {i \in DOMAIN event_log :
                    /\ event_log[i].entity \in Present(event_log, t)
                    /\ event_log[i].time <= t}
        key  == [i \in DOMAIN event_log |->
                    event_log[i].time * (Len(event_log) + 1) + i]
        latest == {i \in seen : \A j \in seen :
                    event_log[j].entity = event_log[i].entity => key[j] <= key[i]}
    IN  SortedBy(latest, key)

\* groupby(event)['index'].rank(method='first') and its maximum per event
RankOf(event_log, recent, i) ==
    Cardinality({j \in Range(recent) :
        event_log[j].event = event_log[i].event /\ j <= i})

MaxRank(event_log, recent, i) ==
    Cardinality({j \in Range(recent) : event_log[j].event = event_log[i].event})

\* one snapshot: the ranked rows; when some row has rank
\* step_snapshot_max + 1, those rows get additional = max - rank and move
\* to the end, and the rows of every other rank are kept
Snapshot(event_log, t, step_snapshot_max) ==
    LET recent == MostRecent(event_log, t)
        row(i, marked) ==
            [entity |-> event_log[i].entity, event_type |-> event_log[i].event_type,
             event |-> event_log[i].event, time |-> event_log[i].time, index |-> i,
             rank |-> RankOf(event_log, recent, i),
             additional |-> IF marked
                            THEN MaxRank(event_log, recent, i) - RankOf(event_log, recent, i)
                            ELSE NoValue,
             snapshot_time |-> t]
        is_max(i) == RankOf(event_log, recent, i) = step_snapshot_max + 1
        others  == SelectSeq(recent, LAMBDA i : ~is_max(i))
        maximum == SelectSeq(recent, LAMBDA i : is_max(i))
    IN  [k \in DOMAIN others |-> row(others[k], FALSE)]
            \o [k \in DOMAIN maximum |-> row(maximum[k], TRUE)]

\* the sampled times: range(limit_duration) with time_unit % every_x_time_units = 0
SampledTimes(every_x_time_units, limit_duration) ==
    {t \in 0..(limit_duration - 1) : t % every_x_time_units = 0}

\* entity_dfs: the snapshots of the sampled times in increasing order; a
\* pivoted log without an 'arrival' or a 'depart' column raises KeyError at
\* every sampled time, and no snapshot is appended
RECURSIVE Snapshots(_, _, _)
Snapshots(event_log, times, step_snapshot_max) ==
    IF times = {} THEN <<>>
    ELSE LET t == CHOOSE u \in times : \A v \in times : u <= v
         IN  (IF HasColumn(event_log, "arrival") /\ HasColumn(event_log, "depart")
              THEN <<Snapshot(event_log, t, step_snapshot_max)>>
              ELSE <<>>)
             \o Snapshots(event_log, times \ {t}, step_snapshot_max)

RECURSIVE Concat(_)
Concat(dfs) == IF dfs = <<>> THEN <<>> ELSE Head(dfs) \o Concat(Tail(dfs))

\* the order of the event names as strings
EventNameOrder == <<"arrival", "depart", "exit", "use", "wait">>

EventNameRank(event) == CHOOSE n \in DOMAIN EventNameOrder : EventNameOrder[n] = event

\* sort_values on the rows of a frame, stable
SortValues(df, key) ==
    LET pos == SortedBy(DOMAIN df, [p \in DOMAIN df |-> key[p] * (Len(df) + 1) + p])
    IN  [n \in DOMAIN pos |-> df[pos[n]]]

\* final_step: the last row of each entity by (entity, time), its time moved
\* on by every_x_time_units and its event set to "exit"
FinalStep(full_entity_df, every_x_time_units) ==
    LET width  == 1 + SumOf(DOMAIN full_entity_df,
                            [p \in DOMAIN full_entity_df |-> full_entity_df[p].time])
        sorted == SortValues(full_entity_df,
                    [p \in DOMAIN full_entity_df |->
                        full_entity_df[p].entity * width + full_entity_df[p].time])
        tail   == SelectSeq([n \in DOMAIN sorted |-> n],
                    LAMBDA n : \A m \in DOMAIN sorted :
                        sorted[m].entity = sorted[n].entity => m <= n)
    IN  [n \in DOMAIN tail |->
            [sorted[tail[n]] EXCEPT !.time = @ + every_x_time_units, !.event = "exit"]]

\* reshape_for_animations: [outcome, rows]; pd.concat of no snapshot at all
\* raises ValueError
reshape_for_animations(event_log, every_x_time_units, limit_duration, step_snapshot_max) ==
    LET entity_dfs == Snapshots(event_log,
                        SampledTimes(every_x_time_units, limit_duration),
                        step_snapshot_max)
        full_entity_df  == Concat(entity_dfs)
        full_patient_df == full_entity_df \o FinalStep(full_entity_df, every_x_time_units)
    IN  IF entity_dfs = <<>>
        THEN [outcome |-> "ValueError", rows |-> <<>>]
        ELSE [outcome |-> "ok",
              rows |-> SortValues(full_patient_df,
                        [p \in DOMAIN full_patient_df |->
                            full_patient_df[p].time * (Len(EventNameOrder) + 1)
                                + EventNameRank(full_patient_df[p].event)])]

---------------------------------------------------------------------------
(* SpecPrep: reshape_for_animations applied to the event logs of up to     *)
(* MaxEntities entities.  Every entity arrives, may wait in a queue from   *)
(* its arrival on, and departs or not; the log is in order of time, as a   *)
(* simulation writes it.                                                   *)

MaxEntities == 3
ArrivalTimes == {0, 1}
DepartTimes == {2, 3}
Strides == {1, 2}
Limits == {4}
Caps == {1, 2}

Journeys == [arrival : ArrivalTimes, waits : BOOLEAN, depart : DepartTimes \cup {NoValue}]

\* the log of the journeys js (a function from the entities to Journeys)
JourneyLog(js) ==
    LET entry(e, ty, ev, t, stage) ==
            [entity |-> e, event_type |-> ty, event |-> ev, time |-> t, stage |-> stage]
        entries ==
            {entry(e, "arrival_departure", "arrival", js[e].arrival, 1) : e \in DOMAIN js}
            \cup {entry(e, "queue", "wait", js[e].arrival, 2) :
                    e \in {x \in DOMAIN js : js[x].waits}}
            \cup {entry(e, "arrival_departure", "depart", js[e].depart, 3) :
                    e \in {x \in DOMAIN js : js[x].depart # NoValue}}
        order == SortedBy(entries,
                    [x \in entries |-> (x.time * (MaxEntities + 2) + x.entity) * 4 + x.stage])
    IN  [n \in DOMAIN order |->
            [entity |-> order[n].entity, event_type |-> order[n].event_type,
             event |-> order[n].event, time |-> order[n].time]]

\* one entity arriving at 0 and departing at 25, sampled every 10 up to 40
SingleEntityLog ==
    <<[entity |-> 1, event_type |-> "arrival_departure", event |-> "arrival", time |-> 0],
      [entity |-> 1, event_type |-> "arrival_departure", event |-> "depart", time |-> 25]>>

SingleEntityCall ==
    [event_log |-> SingleEntityLog, every_x_time_units |-> 10, limit_duration |-> 40,
     step_snapshot_max |-> 50, done |-> FALSE, outcome |-> "none", rows |-> <<>>]

PrepCalls ==
    {[event_log |-> JourneyLog(js), every_x_time_units |-> k, limit_duration |-> l,
      step_snapshot_max |-> c, done |-> FALSE, outcome |-> "none", rows |-> <<>>] :
        js \in UNION {[1..n -> Journeys] : n \in 1..MaxEntities},
        k \in Strides, l \in Limits, c \in Caps}
    \cup {SingleEntityCall}

InitPrep ==
    /\ prep \in PrepCalls
    /\ pstore = NewStore(Unbounded) /\ reqs = <<>> /\ nitems = 0 /\ trig = <<>>
    /\ last = NoCall
    /\ sims = <<>> /\ inp = <<>>
    /\ logger = <<>> /\ lcall = <<>>

Reshape ==
    /\ ~prep.done
    /\ LET res == reshape_for_animations(prep.event_log, prep.every_x_time_units,
                                         prep.limit_duration, prep.step_snapshot_max)
       IN  prep' = [prep EXCEPT !.done = TRUE, !.outcome = res.outcome, !.rows = res.rows]
    /\ UNCHANGED <<storeVars, simVars, logVars>>

NextPrep == Reshape

SpecPrep == InitPrep /\ [][NextPrep]_vars

---------------------------------------------------------------------------
(* Claims about the snapshot reshaping, checked under SpecPrep             *)

Reshaped == prep.done /\ prep.outcome = "ok"

Sampled == SampledTimes(prep.every_x_time_units, prep.limit_duration)

LogEntities == {prep.event_log[i].entity : i \in DOMAIN prep.event_log}

\* the rows of entity e in the snapshot of time t, the exit rows apart
RowsAt(e, t) ==
    {p \in DOMAIN prep.rows :
        /\ prep.rows[p].entity = e
        /\ prep.rows[p].snapshot_time = t
        /\ prep.rows[p].event # "exit"}

ExitRows(e) ==
    {p \in DOMAIN prep.rows : prep.rows[p].entity = e /\ prep.rows[p].event = "exit"}

\* the last sampled time at which entity e has a row
LastSampled(e) ==
    CHOOSE t \in Sampled : RowsAt(e, t) # {} /\ \A u \in Sampled : RowsAt(e, u) # {} => u <= t

\* C18: the reshaped log has rows only for the sampled times 0, k, 2k, ...
\* below limit_duration, exactly one row per entity and sampled time at
\* which the entity is present, and for every entity one exit row placed at
\* its last sampled time + k; for the single entity arriving at 0 and
\* departing at 25, with k = 10 and limit_duration = 40, the sampled rows are
\* at the times {0, 10, 20, 30} and no row is at time 40 or later.
C18_SampledRows ==
    Reshaped =>
        /\ \A p \in DOMAIN prep.rows :
                prep.rows[p].event # "exit" => prep.rows[p].snapshot_time \in Sampled
        /\ \A e \in LogEntities : \A t \in Sampled :
                Cardinality(RowsAt(e, t)) = IF e \in Present(prep.event_log, t) THEN 1 ELSE 0
        /\ \A e \in LogEntities :
                (\E t \in Sampled : RowsAt(e, t) # {}) =>
                    /\ Cardinality(ExitRows(e)) = 1
                    /\ \A p \in ExitRows(e) :
                        \/ prep.rows[p].snapshot_time = LastSampled(e) + prep.every_x_time_units
                        \/ prep.rows[p].time = LastSampled(e) + prep.every_x_time_units
        /\ (prep.event_log = SingleEntityLog /\ prep.every_x_time_units = 10
                /\ prep.limit_duration = 40) =>
                /\ {t \in Sampled : RowsAt(1, t) # {}} = {0, 10, 20, 30}
                /\ \A p \in DOMAIN prep.rows :
                        prep.rows[p].snapshot_time < 40 /\ prep.rows[p].time < 40

\* the entities whose latest event at the sampled time t is ev
SharingEvent(ev, t) ==
    {i \in Range(MostRecent(prep.event_log, t)) : prep.event_log[i].event = ev}

\* the rows of the (event, snapshot) pair, individual rows and overflow rows
PairRows(ev, t, overflow) ==
    {p \in DOMAIN prep.rows :
        /\ prep.rows[p].event = ev
        /\ prep.rows[p].snapshot_time = t
        /\ (prep.rows[p].additional # NoValue) = overflow}

\* C19: when n > step_snapshot_max entities share an event at a sampled
\* time, the reshaped log holds for that (event, snapshot) pair exactly
\* step_snapshot_max individual rows and exactly one overflow row, whose
\* additional is n - step_snapshot_max - 1; the entities ranked above the
\* cap have no individual row.
C19_OverflowCapped ==
    Reshaped =>
        \A t \in Sampled :
            \A ev \in {prep.event_log[i].event : i \in DOMAIN prep.event_log} :
                LET n == Cardinality(SharingEvent(ev, t))
                IN  n > prep.step_snapshot_max =>
                        /\ Cardinality(PairRows(ev, t, FALSE)) = prep.step_snapshot_max
                        /\ Cardinality(PairRows(ev, t, TRUE)) = 1
                        /\ \A p \in PairRows(ev, t, TRUE) :
                                prep.rows[p].additional = n - prep.step_snapshot_max - 1
                        /\ \A p \in PairRows(ev, t, FALSE) :
                                prep.rows[p].rank <= prep.step_snapshot_max

\* the entities with an arrival event and no depart event
NeverDeparting ==
    {e \in LogEntities :
        /\ \E i \in DOMAIN prep.event_log :
                prep.event_log[i].entity = e /\ prep.event_log[i].event = "arrival"
        /\ ~\E i \in DOMAIN prep.event_log :
                prep.event_log[i].entity = e /\ prep.event_log[i].event = "depart"}

ArrivalOf(e) ==
    LET i == CHOOSE j \in DOMAIN prep.event_log :
                prep.event_log[j].entity = e /\ prep.event_log[j].event = "arrival"
    IN  prep.event_log[i].time

\* C20: for every log, also one in which no entity departs, the reshaping
\* succeeds and an entity with an arrival and no depart event has a row in
\* the snapshot of every sampled time at or after its arrival.
C20_NoDepartStillPresent ==
    prep.done =>
        /\ prep.outcome = "ok"
        /\ \A e \in NeverDeparting : \A t \in Sampled :
                ArrivalOf(e) <= t => RowsAt(e, t) # {}

---------------------------------------------------------------------------
(* Further claims about VidigiPriorityStore, checked under SpecStore       *)

\* get_queue in non-decreasing priority, equal priorities in issue order
QueueOrdered(get_queue) ==
    \A i, j \in 1..Len(get_queue) :
        i < j =>
            /\ get_queue[i].priority <= get_queue[j].priority
            /\ get_queue[i].priority = get_queue[j].priority
                    => get_queue[i].id < get_queue[j].id

\* the position (1-based) of the first entry with a priority above p, or
\* one past the end
FirstLarger(get_queue, p) ==
    LET larger == {i \in 1..Len(get_queue) : get_queue[i].priority > p}
    IN  IF larger = {} THEN Len(get_queue) + 1
        ELSE CHOOSE i \in larger : \A j \in larger : i <= j

(* C25: after every call get_queue is in non-decreasing priority with     *)
(* equal priorities in the order the requests were issued, and a get that *)
(* has to wait is inserted immediately before the first entry with a      *)
(* strictly larger priority, at the end if there is none.                 *)
C25_QueueSortedStable ==
    [][/\ QueueOrdered(pstore'.get_queue)
       /\ (last'.op = "get" /\ reqs'[last'.req].state = "pending" /\ pstore.items = <<>>) =>
            LET k == FirstLarger(pstore.get_queue, reqs'[last'.req].priority)
            IN  /\ Len(pstore'.get_queue) = Len(pstore.get_queue) + 1
                /\ pstore'.get_queue[k].id = last'.req
                /\ \A i \in 1..Len(pstore.get_queue) :
                        pstore'.get_queue[IF i < k THEN i ELSE i + 1] = pstore.get_queue[i]]_vars

\* a request of priority 1 was just queued behind an equal one and before
\* an earlier request of priority 2
C25_Witness ==
    /\ last.op = "get"
    /\ Len(pstore.get_queue) = 3
    /\ pstore.get_queue[2].id = last.req
    /\ pstore.get_queue[1].priority = 1
    /\ pstore.get_queue[2].priority = 1
    /\ pstore.get_queue[3].priority = 2

(* C37: in a VidigiPriorityStore of finite capacity, len(items) never      *)
(* exceeds capacity, whatever puts, gets and returns were made (returns by *)
(* scoped requests after other items were put included).                   *)
C37_ItemsWithinCapacity ==
    pstore.capacity # Unbounded => Len(pstore.items) <= pstore.capacity

---------------------------------------------------------------------------
(* Further claims about the clinics, checked under Spec                    *)

\* the time at which patient p called request(): its treatment_wait_begins
IssuedAt(sim, p) ==
    LET i == CHOOSE j \in DOMAIN sim.log :
                sim.log[j].e = p /\ sim.log[j].ev = "treatment_wait_begins"
    IN  sim.log[i].t

(* C26: VidigiStore grants in request order: no request has been granted  *)
(* while a request issued before it (the get is created when request() is *)
(* called, and patients call it in the order of their ids) still waits.    *)
C26_FifoGrantOrder ==
    \A s \in Sides : sims[s].variant = "fifo" =>
        \A p, q \in Patients :
            (p < q /\ sims[s].gst[p] = "pending")
                => sims[s].gst[q] \in {"none", "pending"}

\* two requests waited at the same time and the one issued first has been
\* granted an item, the later one still waits
C26_Witness ==
    \E s \in Sides : \E p, q \in Patients :
        /\ sims[s].variant = "fifo"
        /\ p < q
        /\ sims[s].gst[p] = "triggered" /\ sims[s].gst[q] = "pending"
        /\ IssuedAt(sims[s], p) < sims[s].now
        /\ IssuedAt(sims[s], q) < sims[s].now

---------------------------------------------------------------------------
(* SpecLegacy: one VidigiPriorityStoreLegacy driven call by call, on the   *)
(* variables of SpecStore.  pstore is the store with the clock of its      *)
(* environment (`now`); reqs[r] is the r-th PriorityGetLegacy with its     *)
(* priority, preempt flag and request time; trig holds the triggered put   *)
(* and get events the scheduler has yet to process, oldest first.          *)

\* the times of the environment's clock
Clock == {0, 1}
Preempts == {TRUE, FALSE}

\* the resources put into the store
LegacyItems == {1}

NewLegacyStore ==
    [items |-> <<>>, get_queue |-> <<>>, put_queue |-> <<>>, capacity |-> Unbounded,
     now |-> 0]

\* PriorityGetLegacy.__init__: key = (priority, time, not preempt), then
\* Get.__init__ queues the event in the SortedQueue and calls _trigger_get
\* (first a variant whose key ends in preempt)
PriorityGetLegacy_preempt_key(st, id, priority, preempt) ==
    ST_trigger_get([st EXCEPT !.get_queue =
        SortedAppend(@, [id |-> id, priority |-> priority, time |-> st.now,
                         np |-> IF preempt THEN 1 ELSE 0])])

PriorityGetLegacy(st, id, priority, preempt) ==
    ST_trigger_get([st EXCEPT !.get_queue =
        SortedAppend(@, [id |-> id, priority |-> priority, time |-> st.now,
                         np |-> IF preempt THEN 0 ELSE 1])])

\* the events among `fired`, as the scheduler will process them
FiredEvents(fired) == [i \in DOMAIN fired |-> fired[i].ev]

InitLegacy ==
    /\ pstore = NewLegacyStore
    /\ reqs = <<>>
    /\ nitems = 0
    /\ trig = <<>>
    /\ last = NoCall
    /\ sims = <<>>
    /\ inp = <<>>
    /\ logger = <<>>
    /\ lcall = <<>>
    /\ prep = <<>>

\* the clock of the environment moves on
GTick ==
    /\ pstore.now + 1 \in Clock
    /\ pstore' = [pstore EXCEPT !.now = @ + 1]
    /\ UNCHANGED <<reqs, nitems, trig, last, simVars, logVars, prepVars>>

\* store.get(priority=..., preempt=...)
GGet(priority, preempt) ==
    /\ Len(reqs) < MaxRequests
    /\ LET id  == Len(reqs) + 1
           res == PriorityGetLegacy(pstore, id, priority, preempt)
           new == [priority |-> priority, preempt |-> preempt, time |-> pstore.now,
                   state |-> "pending", value |-> 0, back |-> 0]
       IN  /\ pstore' = res.st
           /\ reqs' = Fire(Append(reqs, new), res.fired)
           /\ trig' = trig \o FiredEvents(res.fired)
    /\ UNCHANGED <<nitems, last, simVars, logVars, prepVars>>

\* store.put(VidigiResource(...)) of a resource that was not in the store
GPutNew ==
    /\ nitems + 1 \in LegacyItems
    /\ LET item == nitems + 1
           res  == ST_put(pstore, item, item)
       IN  /\ pstore' = res.st
           /\ trig' = trig \o FiredEvents(res.fired)
    /\ nitems' = nitems + 1
    /\ UNCHANGED <<reqs, last, simVars, logVars, prepVars>>

\* get-then-put: the process that received the item puts it back
GPutBack(r) ==
    /\ r \in DOMAIN reqs
    /\ reqs[r].state = "processed"
    /\ reqs[r].back = 0
    /\ LET item == reqs[r].value
           res  == ST_put(pstore, item, item)
       IN  /\ pstore' = res.st
           /\ reqs' = [reqs EXCEPT ![r].back = 1]
           /\ trig' = trig \o FiredEvents(res.fired)
    /\ UNCHANGED <<nitems, last, simVars, logVars, prepVars>>

\* the scheduler processes the oldest triggered event and runs its
\* callbacks: _trigger_get after a put, _trigger_put after a get
GProcess ==
    /\ trig # <<>>
    /\ LET ev  == Head(trig)
           res == IF ev[1] = "put" THEN ST_trigger_get(pstore) ELSE ST_trigger_put(pstore)
           rq  == IF ev[1] = "get" THEN [reqs EXCEPT ![ev[2]].state = "processed"]
                  ELSE reqs
       IN  /\ pstore' = res.st
           /\ reqs' = Fire(rq, res.fired)
           /\ trig' = Tail(trig) \o FiredEvents(res.fired)
    /\ UNCHANGED <<nitems, last, simVars, logVars, prepVars>>

NextLegacy ==
    \/ GTick
    \/ \E priority \in Priorities, preempt \in Preempts : GGet(priority, preempt)
    \/ GPutNew
    \/ \E r \in 1..MaxRequests : GPutBack(r)
    \/ GProcess

SpecLegacy == InitLegacy /\ [][NextLegacy]_vars

---------------------------------------------------------------------------
(* Claims about VidigiPriorityStoreLegacy, checked under SpecLegacy        *)

\* request r is served by this step while request q goes on waiting
ServedPast(r, q) ==
    /\ r \in DOMAIN reqs' /\ q \in DOMAIN reqs' /\ r # q
    /\ reqs'[r].state = "triggered"
    /\ (r \in DOMAIN reqs => reqs[r].state = "pending")
    /\ reqs'[q].state = "pending"

\* the order the claim gives: priority, then request time, then
\* non-preempting before preempting
NonPreemptingFirst(a, b) ==
    \/ a.priority < b.priority
    \/ a.priority = b.priority /\ a.time < b.time
    \/ a.priority = b.priority /\ a.time = b.time /\ (a.preempt => b.preempt)

\* the order of the key (priority, time, not preempt): priority, then
\* request time, then preempting before non-preempting
PreemptingFirst(a, b) ==
    \/ a.priority < b.priority
    \/ a.priority = b.priority /\ a.time < b.time
    \/ a.priority = b.priority /\ a.time = b.time /\ (b.preempt => a.preempt)

(* C27, as stated: in VidigiPriorityStoreLegacy a pending get is served    *)
(* before the others in ascending order of priority, then of request time, *)
(* and among requests equal in both a non-preempting request is served     *)
(* before a preempting one.                                                *)
C27_NonPreemptingWinTies ==
    [][\A r, q \in 1..MaxRequests :
        ServedPast(r, q) => NonPreemptingFirst(reqs'[r], reqs'[q])]_vars

(* C27, amended: a pending get is served in ascending order of the key    *)
(* (priority, request time, not preempt): lower priority number first,     *)
(* then the earlier request, and among requests equal in both a           *)
(* preempting request is served before a non-preempting one.              *)
C27_PreemptingWinTies ==
    [][\A r, q \in 1..MaxRequests :
        ServedPast(r, q) => PreemptingFirst(reqs'[r], reqs'[q])]_vars

\* a preempting request was served past a non-preempting request of the
\* same priority made earlier at the same time, which still waits
C27_Witness ==
    \E r, q \in DOMAIN reqs :
        /\ q < r
        /\ reqs[r].state = "triggered" /\ reqs[q].state = "pending"
        /\ reqs[r].priority = reqs[q].priority /\ reqs[r].time = reqs[q].time
        /\ reqs[r].preempt /\ ~reqs[q].preempt


---------------------------------------------------------------------------
(* Further claims about the snapshot reshaping, checked under SpecPrep     *)

\* entity e is in the system at time t: it has arrived, and has not
\* departed before t
Here(e, t) ==
    /\ \E i \in DOMAIN prep.event_log :
        /\ prep.event_log[i].entity = e /\ prep.event_log[i].event = "arrival"
        /\ prep.event_log[i].time <= t
    /\ \A i \in DOMAIN prep.event_log :
        prep.event_log[i].entity = e /\ prep.event_log[i].event = "depart"
            => prep.event_log[i].time >= t

\* the log position of the latest event of e at or before t, the one
\* appended later among events of the same time
LatestEvent(e, t) ==
    CHOOSE i \in DOMAIN prep.event_log :
        /\ prep.event_log[i].entity = e /\ prep.event_log[i].time <= t
        /\ \A j \in DOMAIN prep.event_log :
            prep.event_log[j].entity = e /\ prep.event_log[j].time <= t
                => \/ prep.event_log[j].time < prep.event_log[i].time
                   \/ prep.event_log[j].time = prep.event_log[i].time /\ j <= i

\* the entities at the same event as e at time t whose latest event is not
\* after e's in the log
AheadAt(e, t) ==
    {f \in LogEntities :
        /\ Here(f, t)
        /\ prep.event_log[LatestEvent(f, t)].event = prep.event_log[LatestEvent(e, t)].event
        /\ LatestEvent(f, t) <= LatestEvent(e, t)}

(* C29: at each sampled time t every entity present at t has exactly one   *)
(* row, the row of its latest log event with time <= t (of the events of   *)
(* that time, the one appended last), an entity not present has none, and  *)
(* rank numbers the entities of one event 1..n in the log order of those   *)
(* latest events.                                                          *)
C29_LatestEventRanked ==
    Reshaped =>
        \A t \in Sampled : \A e \in LogEntities :
            IF Here(e, t)
            THEN /\ Cardinality(RowsAt(e, t)) = 1
                 /\ \A p \in RowsAt(e, t) :
                     /\ prep.rows[p].index = LatestEvent(e, t)
                     /\ prep.rows[p].event = prep.event_log[LatestEvent(e, t)].event
                     /\ prep.rows[p].time = prep.event_log[LatestEvent(e, t)].time
                     /\ prep.rows[p].rank = Cardinality(AheadAt(e, t))
            ELSE RowsAt(e, t) = {}

\* at a sampled time two entities share an event, the second of them by an
\* event logged at the same time as, and after, another event of its own
C29_Witness ==
    /\ Reshaped
    /\ \E t \in Sampled : \E e, f \in LogEntities :
        /\ e # f /\ Here(e, t) /\ Here(f, t)
        /\ f \in AheadAt(e, t)
        /\ \E j \in DOMAIN prep.event_log :
            /\ j < LatestEvent(e, t)
            /\ prep.event_log[j].entity = e
            /\ prep.event_log[j].time = prep.event_log[LatestEvent(e, t)].time
        /\ \E p \in RowsAt(e, t) : prep.rows[p].rank = 2

\* the rows are in order of sampled time, and of event name within a
\* sampled time
SortedBySampledTime(rows) ==
    \A p, q \in DOMAIN rows :
        p < q =>
            \/ rows[p].snapshot_time < rows[q].snapshot_time
            \/ /\ rows[p].snapshot_time = rows[q].snapshot_time
               /\ EventNameRank(rows[p].event) <= EventNameRank(rows[q].event)

(* C30: every entity that has a row in some snapshot gets exactly one exit *)
(* row, placed every_x_time_units after its last sampled time, that is in  *)
(* a frame later than each of its regular rows, and the output is in order *)
(* of sampled time, then of event name.                                    *)
C30_ExitRowInLaterFrame ==
    Reshaped =>
        /\ \A e \in LogEntities :
            (\E t \in Sampled : RowsAt(e, t) # {}) =>
                /\ Cardinality(ExitRows(e)) = 1
                /\ \A x \in ExitRows(e) :
                    /\ prep.rows[x].snapshot_time = LastSampled(e) + prep.every_x_time_units
                    /\ \A t \in Sampled : RowsAt(e, t) # {} => prep.rows[x].snapshot_time > t
        /\ SortedBySampledTime(prep.rows)

(* C39: in the output of reshape_for_animations every entity has at most   *)
(* one row per snapshot_time, its exit row counted: an entity is never in  *)
(* two places in one frame.                                                *)
C39_OneRowPerFrame ==
    Reshaped =>
        \A p, q \in DOMAIN prep.rows :
            /\ prep.rows[p].entity = prep.rows[q].entity
            /\ prep.rows[p].snapshot_time = prep.rows[q].snapshot_time
            => p = q

---------------------------------------------------------------------------
(* SpecClosure: the control process of the overnight-closure clinic        *)
(* (examples/feat_repeating_overlay: Model.close_clinic_overnight), on the *)
(* variables sims (the process and the clock) and inp (the settings of g). *)
(* The process sleeps for unav_freq, works out how late it is, asks for a  *)
(* cubicle at priority -1, which it gets once the patients ahead of it     *)
(* are done, and holds it for the adjusted time.                           *)

\* the latest time at which the process still starts a sleep
MaxClosingTime == 24

ClosureFreqs == {4, 6}        \* g.unav_freq
ClosureTimes == {1, 2, 6}     \* g.unav_time
GrantDelays  == {0, 1, 2}     \* how long the request at priority -1 waits

\* Python's round(n / d) for n >= 0, d > 0: to the nearest integer, a half
\* to the even one
PyRound(n, d) ==
    LET q == n \div d
        r == n % d
    IN  IF 2 * r < d THEN q
        ELSE IF 2 * r > d THEN q + 1
        ELSE IF q % 2 = 0 THEN q ELSE q + 1

Max0(x) == IF x > 0 THEN x ELSE 0

ideal_closing_time(closing_time, unav_freq) == PyRound(closing_time, unav_freq) * unav_freq

overrun(closing_time, unav_freq) ==
    Max0(closing_time - ideal_closing_time(closing_time, unav_freq))

\* adjusted_unav_time = max(0, g.unav_time - overrun)
\* (first a variant without the max)
adjusted_unav_time_signed(unav_time, over) == unav_time - over

adjusted_unav_time(unav_time, over) == Max0(unav_time - over)

InitClosure ==
    /\ inp \in [unav_freq : ClosureFreqs, unav_time : ClosureTimes]
    /\ sims = [now |-> 0, pc |-> "sleep", timeout |-> inp.unav_freq,
               closing_time |-> NoValue, overrun |-> NoValue,
               adjusted_unav_time |-> NoValue, event_log |-> <<>>]
    /\ pstore = NewStore(Unbounded) /\ reqs = <<>> /\ nitems = 0 /\ trig = <<>>
    /\ last = NoCall
    /\ logger = <<>> /\ lcall = <<>>
    /\ prep = <<>>

\* the sleep of unav_freq ends: closing_time, overrun and
\* adjusted_unav_time are worked out and the cubicle is requested
CloseClinic ==
    /\ sims.pc = "sleep"
    /\ LET closing_time == sims.now + sims.timeout
           over == overrun(closing_time, inp.unav_freq)
       IN  sims' = [sims EXCEPT !.now = closing_time, !.pc = "request", !.timeout = NoValue,
                                !.closing_time = closing_time, !.overrun = over,
                                !.adjusted_unav_time = adjusted_unav_time(inp.unav_time, over)]
    /\ UNCHANGED <<inp, storeVars, logVars, prepVars>>

\* the request is granted: the closure is logged and the cubicle is held
\* for adjusted_unav_time
ClosureBegins ==
    /\ sims.pc = "request"
    /\ \E d \in GrantDelays :
        sims' = [sims EXCEPT !.now = @ + d, !.pc = "closed",
                             !.timeout = sims.adjusted_unav_time,
                             !.event_log = Append(@, [event |-> "treatment_begins",
                                                     time |-> sims.now + d])]
    /\ UNCHANGED <<inp, storeVars, logVars, prepVars>>

\* the closure ends: the cubicle goes back and the next sleep starts
Reopen ==
    /\ sims.pc = "closed"
    /\ sims.now + sims.timeout <= MaxClosingTime
    /\ sims' = [sims EXCEPT !.now = @ + sims.timeout, !.pc = "sleep",
                            !.timeout = inp.unav_freq]
    /\ UNCHANGED <<inp, storeVars, logVars, prepVars>>

NextClosure ==
    \/ CloseClinic
    \/ ClosureBegins
    \/ Reopen

SpecClosure == InitClosure /\ [][NextClosure]_vars

---------------------------------------------------------------------------
(* Claims about the overnight closure, checked under SpecClosure           *)

(* C24: at every closing time the control process reaches, the overrun it  *)
(* works out is >= 0 and the time it then keeps the cubicle closed is      *)
(* max(0, unav_time - overrun), which is never negative and never more     *)
(* than unav_time.                                                         *)
C24_ClosureWithinBounds ==
    /\ sims.pc \in {"request", "closed"} =>
        /\ sims.overrun >= 0
        /\ sims.overrun >= sims.closing_time
                            - ideal_closing_time(sims.closing_time, inp.unav_freq)
        /\ sims.adjusted_unav_time >= 0
        /\ sims.adjusted_unav_time <= inp.unav_time
        /\ sims.adjusted_unav_time >= inp.unav_time - sims.overrun
        /\ sims.adjusted_unav_time \in {0, inp.unav_time - sims.overrun}
    /\ sims.pc = "closed" => sims.timeout = sims.adjusted_unav_time

\* the process closes the clinic after an overrun longer than unav_time:
\* the closure is cut to nothing
C24_Witness ==
    /\ sims.pc = "closed"
    /\ sims.overrun > inp.unav_time
    /\ sims.timeout = 0

---------------------------------------------------------------------------
(* The layout (vidigi/prep.py: generate_animation_df) and the all-in-one   *)
(* call (vidigi/animation.py: animate_activity_log).                       *)
(*                                                                         *)
(* The arguments of generate_animation_df are a record a with the fields   *)
(* wrap_queues_at, wrap_resources_at (NoValue for None), step_snapshot_max,*)
(* gap_between_entities, gap_between_resources, gap_between_rows.  A       *)
(* placed row is a reshaped row with resource_id, x, y, row, x_final,       *)
(* y_final and icon.                                                       *)

\* groupby([event, "snapshot_time"])["snapshot_time"].rank(method='first'):
\* the place of the row among the rows of its event and snapshot, in the
\* order of the frame
FrameRank(df, p) ==
    Cardinality({q \in DOMAIN df :
        /\ q <= p
        /\ df[q].event = df[p].event
        /\ df[q].snapshot_time = df[p].snapshot_time})

\* the position of a resource_use row
\* (first a variant that leaves the first row of resources where the base is)
ResourcePosition_at_base(x, y, resource_id, a) ==
    LET row == IF a.wrap_resources_at = NoValue THEN NoValue
               ELSE (resource_id - 1) \div a.wrap_resources_at
    IN  [x_final |-> IF row = NoValue \/ row = 0 THEN x
                     ELSE x - resource_id * a.gap_between_resources
                            + a.wrap_resources_at * row * a.gap_between_resources
                            + a.gap_between_resources,
         y_final |-> IF row = NoValue THEN y ELSE y + row * a.gap_between_rows,
         row |-> row]

ResourcePosition(x, y, resource_id, a) ==
    LET row == IF a.wrap_resources_at = NoValue THEN NoValue
               ELSE (resource_id - 1) \div a.wrap_resources_at
        x1  == x - resource_id * a.gap_between_resources
    IN  [x_final |-> IF row = NoValue THEN x1
                     ELSE x1 + a.wrap_resources_at * row * a.gap_between_resources
                             + a.gap_between_resources,
         y_final |-> IF row = NoValue THEN y ELSE y + row * a.gap_between_rows,
         row |-> row]

\* the position of a queue row; the row of rank step_snapshot_max + 1 is
\* moved gap_between_entities * (wrap_queues_at / 2) further (the gaps of
\* the model are even, so the half is exact)
QueuePosition(x, y, rank, a) ==
    LET row == (rank - 1) \div a.wrap_queues_at
        x1  == x - rank * a.gap_between_entities
        x2  == x1 + a.wrap_queues_at * row * a.gap_between_entities + a.gap_between_entities
    IN  [x_final |-> IF rank # a.step_snapshot_max + 1 THEN x2
                     ELSE x2 - (a.gap_between_entities * a.wrap_queues_at) \div 2,
         y_final |-> y + row * a.gap_between_rows,
         row |-> row]

PlacedRow(r, rank, xy, pos) ==
    [entity |-> r.entity, event_type |-> r.event_type, event |-> r.event,
     time |-> r.time, index |-> r.index, additional |-> r.additional,
     snapshot_time |-> r.snapshot_time, resource_id |-> r.resource_id,
     rank |-> rank, x |-> xy.x, y |-> xy.y,
     row |-> pos.row, x_final |-> pos.x_final, y_final |-> pos.y_final,
     icon |-> IF r.additional = NoValue THEN "entity" ELSE "more"]

\* the body of generate_animation_df once every row has its base x and y
\* (base[p] for row p): [outcome, rows].  With no resource_use row and
\* wrap_resources_at given, resource_use['x_final'] is read before it was
\* ever made: KeyError; with wrap_queues_at None, wrap_queues_at / 2 is a
\* TypeError.
Placed(df, base, a) ==
    LET width  == 1 + SumOf(DOMAIN df, [p \in DOMAIN df |-> df[p].time + df[p].snapshot_time])
        merged == [p \in DOMAIN df |->
                    [r |-> df[p], rank |-> FrameRank(df, p), xy |-> base[p]]]
        sorted == SortValues(merged,
                    [p \in DOMAIN df |->
                        (EventNameRank(df[p].event) * width + df[p].snapshot_time) * width
                            + df[p].time])
        resource_use == SelectSeq(sorted, LAMBDA m : m.r.event_type = "resource_use")
        queues       == SelectSeq(sorted, LAMBDA m : m.r.event_type = "queue")
        placed == [n \in DOMAIN queues |->
                    PlacedRow(queues[n].r, queues[n].rank, queues[n].xy,
                        QueuePosition(queues[n].xy.x, queues[n].xy.y, queues[n].rank, a))]
                  \o
                  [n \in DOMAIN resource_use |->
                    PlacedRow(resource_use[n].r, resource_use[n].rank, resource_use[n].xy,
                        ResourcePosition(resource_use[n].xy.x, resource_use[n].xy.y,
                                         resource_use[n].r.resource_id, a))]
    IN  IF resource_use = <<>> /\ a.wrap_resources_at # NoValue
        THEN [outcome |-> "KeyError", rows |-> <<>>]
        ELSE IF a.wrap_queues_at = NoValue
        THEN [outcome |-> "TypeError", rows |-> <<>>]
        ELSE [outcome |-> "ok",
              rows |-> SelectSeq(placed, LAMBDA r : r.additional = NoValue)
                        \o SelectSeq(placed, LAMBDA r : r.additional # NoValue)]

\* generate_animation_df: the base of a row is the position of its event in
\* event_position_df (merge on the event column)
generate_animation_df(full_entity_df, event_position_df, a) ==
    Placed(full_entity_df,
           [p \in DOMAIN full_entity_df |-> event_position_df[full_entity_df[p].event]], a)

\* the same placement with x_final, y_final of each row as its base x, y
generate_animation_df_again(full_entity_df_plus_pos, a) ==
    Placed(full_entity_df_plus_pos,
           [p \in DOMAIN full_entity_df_plus_pos |->
                [x |-> full_entity_df_plus_pos[p].x_final,
                 y |-> full_entity_df_plus_pos[p].y_final]], a)

\* the keyword parameters of the three stages
reshape_for_animations_params ==
    {"event_log", "every_x_time_units", "limit_duration", "step_snapshot_max",
     "time_col_name", "entity_col_name", "event_type_col_name", "event_col_name",
     "pathway_col_name", "debug_mode"}

generate_animation_df_params ==
    {"full_entity_df", "event_position_df", "wrap_queues_at", "wrap_resources_at",
     "step_snapshot_max", "gap_between_entities", "gap_between_resources",
     "gap_between_rows", "time_col_name", "entity_col_name", "event_type_col_name",
     "event_col_name", "debug_mode", "custom_entity_icon_list"}

generate_animation_params ==
    {"full_entity_df_plus_pos", "event_position_df", "scenario", "time_col_name",
     "entity_col_name", "event_col_name", "pathway_col_name", "simulation_time_unit",
     "plotly_height", "plotly_width", "include_play_button", "add_background_image",
     "display_stage_labels", "entity_icon_size", "text_size", "resource_icon_size",
     "override_x_max", "override_y_max", "time_display_units", "start_date",
     "start_time", "resource_opacity", "custom_resource_icon", "wrap_resources_at",
     "gap_between_resources", "gap_between_queue_rows", "gap_between_resource_rows",
     "setup_mode", "frame_duration", "frame_transition_duration", "debug_mode"}

\* the keywords animate_activity_log passes to each stage
generate_animation_df_keywords ==
    {"full_entity_df", "event_position_df", "wrap_queues_at", "wrap_resources_at",
     "step_snapshot_max", "gap_between_entities", "gap_between_resources",
     "gap_between_resource_rows", "gap_between_queue_rows", "debug_mode",
     "custom_entity_icon_list", "time_col_name", "entity_col_name",
     "event_type_col_name", "event_col_name"}

reshape_for_animations_keywords ==
    {"event_log", "every_x_time_units", "limit_duration", "step_snapshot_max",
     "debug_mode", "time_col_name", "entity_col_name", "event_type_col_name",
     "event_col_name", "pathway_col_name"}

generate_animation_keywords ==
    {"full_entity_df_plus_pos", "event_position_df", "scenario", "simulation_time_unit",
     "plotly_height", "plotly_width", "include_play_button", "add_background_image",
     "display_stage_labels", "entity_icon_size", "resource_icon_size", "text_size",
     "gap_between_resource_rows", "override_x_max", "override_y_max", "start_date",
     "start_time", "time_display_units", "setup_mode", "resource_opacity",
     "wrap_resources_at", "gap_between_resources", "custom_resource_icon",
     "frame_duration", "frame_transition_duration", "debug_mode", "time_col_name",
     "entity_col_name", "event_col_name", "pathway_col_name"}

\* a call with keywords the function does not have raises TypeError
\* before its body runs
Accepts(params, keywords) == keywords \subseteq params

\* the resource_id column of the log, carried through the reshaping
WithResourceId(rows, event_log) ==
    [p \in DOMAIN rows |->
        [entity |-> rows[p].entity, event_type |-> rows[p].event_type,
         event |-> rows[p].event, time |-> rows[p].time, index |-> rows[p].index,
         rank |-> rows[p].rank, additional |-> rows[p].additional,
         snapshot_time |-> rows[p].snapshot_time,
         resource_id |-> event_log[rows[p].index].resource_id]]

\* animate_activity_log: [outcome, stage], the stage being the last one it
\* called or tried to call; the figure is returned when the three stages
\* ran.  From the end: the call of generate_animation on the placed frame,
animate_activity_log_animation(full_entity_df_plus_pos) ==
    IF full_entity_df_plus_pos.outcome # "ok"
    THEN [outcome |-> full_entity_df_plus_pos.outcome, stage |-> "generate_animation_df"]
    ELSE IF ~Accepts(generate_animation_params, generate_animation_keywords)
    THEN [outcome |-> "TypeError", stage |-> "generate_animation"]
    ELSE [outcome |-> "ok", stage |-> "generate_animation"]

\* the call of generate_animation_df on the reshaped frame,
animate_activity_log_placement(full_entity_df, event_log, event_position_df, a) ==
    IF full_entity_df.outcome # "ok"
    THEN [outcome |-> full_entity_df.outcome, stage |-> "reshape_for_animations"]
    ELSE IF ~Accepts(generate_animation_df_params, generate_animation_df_keywords)
    THEN [outcome |-> "TypeError", stage |-> "generate_animation_df"]
    ELSE animate_activity_log_animation(
            generate_animation_df(WithResourceId(full_entity_df.rows, event_log),
                                  event_position_df, a))

\* and the whole, from the call of reshape_for_animations on
animate_activity_log(event_log, event_position_df, every_x_time_units, limit_duration, a) ==
    IF ~Accepts(reshape_for_animations_params, reshape_for_animations_keywords)
    THEN [outcome |-> "TypeError", stage |-> "reshape_for_animations"]
    ELSE animate_activity_log_placement(
            reshape_for_animations(event_log, every_x_time_units, limit_duration,
                                   a.step_snapshot_max),
            event_log, event_position_df, a)

---------------------------------------------------------------------------
(* SpecLayout: an event log is reshaped, placed by generate_animation_df,  *)
(* and placed once more from its own x_final, y_final; or it is handed to  *)
(* animate_activity_log.  On the variable prep.  Every entity arrives at 0 *)
(* and at once joins the queue "wait" or takes the resource of its own     *)
(* number at "use"; entity 1 departs at 2.  The position table has a row   *)
(* for every event, "exit" included.                                       *)

MaxLayoutEntities == 4

QueueWraps    == {2, 3, NoValue}     \* wrap_queues_at
ResourceWraps == {2, NoValue}        \* wrap_resources_at
LayoutCaps    == {1, 3}              \* step_snapshot_max

LayoutPositions ==
    [ev \in Range(EventNameOrder) |->
        CASE ev = "wait" -> [x |-> 200, y |-> 100]
          [] ev = "use"  -> [x |-> 200, y |-> 50]
          [] ev = "exit" -> [x |-> 300, y |-> 75]
          [] OTHER       -> [x |-> 50, y |-> 75]]

\* the log of entities 1..n, path[e] being "wait" or "use"
LayoutLog(path) ==
    LET n == Len(path)
        arrival(e) == [entity |-> e, event_type |-> "arrival_departure",
                       event |-> "arrival", time |-> 0, resource_id |-> NoValue]
        step(e) == IF path[e] = "wait"
                   THEN [entity |-> e, event_type |-> "queue", event |-> "wait",
                         time |-> 0, resource_id |-> NoValue]
                   ELSE [entity |-> e, event_type |-> "resource_use", event |-> "use",
                         time |-> 0, resource_id |-> e]
    IN  [i \in 1..(2 * n) |-> IF i % 2 = 1 THEN arrival((i + 1) \div 2) ELSE step(i \div 2)]
        \o <<[entity |-> 1, event_type |-> "arrival_departure", event |-> "depart",
              time |-> 2, resource_id |-> NoValue]>>

LayoutCalls ==
    {[event_log |-> LayoutLog(path), event_position_df |-> LayoutPositions,
      every_x_time_units |-> 1, limit_duration |-> 2,
      a |-> [wrap_queues_at |-> wq, wrap_resources_at |-> wr, step_snapshot_max |-> c,
             gap_between_entities |-> 10, gap_between_resources |-> 10,
             gap_between_rows |-> 30],
      stage |-> "new", reached |-> "none", outcome |-> "none",
      full_entity_df |-> <<>>, full_entity_df_plus_pos |-> <<>>, again |-> <<>>] :
        path \in UNION {[1..n -> {"wait", "use"}] : n \in 1..MaxLayoutEntities},
        wq \in QueueWraps, wr \in ResourceWraps, c \in LayoutCaps}

InitLayout ==
    /\ prep \in LayoutCalls
    /\ pstore = NewStore(Unbounded) /\ reqs = <<>> /\ nitems = 0 /\ trig = <<>>
    /\ last = NoCall
    /\ sims = <<>> /\ inp = <<>>
    /\ logger = <<>> /\ lcall = <<>>

\* full_entity_df = reshape_for_animations(event_log, ...)
LayoutReshape ==
    /\ prep.stage = "new"
    /\ LET res == reshape_for_animations(prep.event_log, prep.every_x_time_units,
                                         prep.limit_duration, prep.a.step_snapshot_max)
       IN  prep' = [prep EXCEPT !.stage = "reshape_for_animations", !.outcome = res.outcome,
                                !.full_entity_df = WithResourceId(res.rows, prep.event_log)]
    /\ UNCHANGED <<storeVars, simVars, logVars>>

\* full_entity_df_plus_pos = generate_animation_df(full_entity_df, event_position_df, ...)
Place ==
    /\ prep.stage = "reshape_for_animations" /\ prep.outcome = "ok"
    /\ LET res == generate_animation_df(prep.full_entity_df, prep.event_position_df, prep.a)
       IN  prep' = [prep EXCEPT !.stage = "generate_animation_df", !.outcome = res.outcome,
                                !.full_entity_df_plus_pos = res.rows]
    /\ UNCHANGED <<storeVars, simVars, logVars>>

\* the placement run again on its own output
PlaceAgain ==
    /\ prep.stage = "generate_animation_df" /\ prep.outcome = "ok"
    /\ LET res == generate_animation_df_again(prep.full_entity_df_plus_pos, prep.a)
       IN  prep' = [prep EXCEPT !.stage = "again", !.outcome = res.outcome,
                                !.again = res.rows]
    /\ UNCHANGED <<storeVars, simVars, logVars>>

\* animate_activity_log(event_log, event_position_df, ...)
Animate ==
    /\ prep.stage = "new"
    /\ LET res == animate_activity_log(prep.event_log, prep.event_position_df,
                                       prep.every_x_time_units, prep.limit_duration, prep.a)
       IN  prep' = [prep EXCEPT !.stage = "animate_activity_log", !.reached = res.stage,
                                !.outcome = res.outcome]
    /\ UNCHANGED <<storeVars, simVars, logVars>>

NextLayout ==
    \/ LayoutReshape
    \/ Place
    \/ PlaceAgain
    \/ Animate

SpecLayout == InitLayout /\ [][NextLayout]_vars

---------------------------------------------------------------------------
(* Claims about the layout, checked under SpecLayout                       *)

PlacedOnce == prep.stage = "generate_animation_df" /\ prep.outcome = "ok"

\* the rows of single entities waiting in a queue in the placed frame: rows
\* of a queue event that are neither a "+ N more" marker nor an exit row
EntityQueueRows ==
    {p \in DOMAIN prep.full_entity_df_plus_pos :
        /\ prep.full_entity_df_plus_pos[p].event_type = "queue"
        /\ prep.full_entity_df_plus_pos[p].event # "exit"
        /\ prep.full_entity_df_plus_pos[p].additional = NoValue}

(* C21: with wrap_queues_at = w, a queue entity of rank r is placed in row *)
(* floor((r - 1) / w): y_final = base y + row * gap_between_rows and       *)
(* x_final = base x - r * gap_between_entities                             *)
(*           + w * row * gap_between_entities + gap_between_entities.      *)
C21_QueueWrapPlacement ==
    PlacedOnce =>
        \A p \in EntityQueueRows :
            LET r   == prep.full_entity_df_plus_pos[p]
                w   == prep.a.wrap_queues_at
                gap == prep.a.gap_between_entities
                row == (r.rank - 1) \div w
            IN  /\ r.row = row
                /\ r.y_final = prep.event_position_df[r.event].y + row * prep.a.gap_between_rows
                /\ r.x_final = (prep.event_position_df[r.event].x - r.rank * gap)
                                + w * row * gap + gap

PlacedTwice == prep.stage = "again" /\ prep.outcome = "ok"

\* no queue row lies beyond the wrap threshold, in the first pass or in
\* the second (a pass ranks the rows of a frame anew)
NoQueueRowBeyondWrap ==
    \A df \in {prep.full_entity_df_plus_pos, prep.again} :
        \A p \in DOMAIN df :
            df[p].event_type = "queue" => df[p].rank <= prep.a.wrap_queues_at

\* the row of the first pass that row p of the second pass comes from
FirstPass(p) ==
    CHOOSE q \in DOMAIN prep.full_entity_df_plus_pos :
        /\ prep.full_entity_df_plus_pos[q].entity = prep.again[p].entity
        /\ prep.full_entity_df_plus_pos[q].event = prep.again[p].event
        /\ prep.full_entity_df_plus_pos[q].snapshot_time = prep.again[p].snapshot_time

(* C22, as stated: the layout is idempotent.  Placing the placed frame     *)
(* again, with x_final, y_final as the base x, y, for a log with no queue  *)
(* row beyond the wrap threshold, gives every row (of every rank and every *)
(* resource_id) the x_final, y_final of the first pass.                    *)
C22_LayoutIdempotent ==
    PlacedTwice /\ NoQueueRowBeyondWrap =>
        \A p \in DOMAIN prep.again :
            /\ prep.again[p].x_final = prep.full_entity_df_plus_pos[FirstPass(p)].x_final
            /\ prep.again[p].y_final = prep.full_entity_df_plus_pos[FirstPass(p)].y_final

(* C22, amended: the layout is not idempotent.  Placing the placed frame   *)
(* again, with x_final, y_final as the base x, y, for a log with no queue  *)
(* row beyond the wrap threshold, keeps y_final of every queue row and     *)
(* moves a queue row of rank r (as the second pass ranks it) by            *)
(* (r - 1) * gap_between_entities to the left (and the row of rank         *)
(* step_snapshot_max + 1 by the overflow shift as well); a resource row of *)
(* resource_id i in row floor((i - 1) / wrap_resources_at) moves by        *)
(* (i - 1 - wrap_resources_at * row) * gap_between_resources to the left   *)
(* and by row * gap_between_rows up, and by i * gap_between_resources to   *)
(* the left when wrap_resources_at is None.  Only the queue rows of rank   *)
(* 1 and the resource rows of resource_id 1 (wrap_resources_at given) are  *)
(* where the first pass put them.                                          *)
C22_SecondPassShifts ==
    PlacedTwice /\ NoQueueRowBeyondWrap =>
        \A p \in DOMAIN prep.again :
            LET r     == prep.again[p]
                first == prep.full_entity_df_plus_pos[FirstPass(p)]
                a     == prep.a
            IN  IF r.event_type = "queue"
                THEN /\ r.y_final = first.y_final
                     /\ r.x_final = first.x_final - (r.rank - 1) * a.gap_between_entities
                            - (IF r.rank = a.step_snapshot_max + 1
                               THEN (a.gap_between_entities * a.wrap_queues_at) \div 2 ELSE 0)
                     /\ (r.x_final = first.x_final <=> r.rank = 1)
                ELSE IF a.wrap_resources_at = NoValue
                THEN /\ r.y_final = first.y_final
                     /\ r.x_final = first.x_final - r.resource_id * a.gap_between_resources
                ELSE LET row == (r.resource_id - 1) \div a.wrap_resources_at
                     IN  /\ r.y_final = first.y_final + row * a.gap_between_rows
                         /\ r.x_final = first.x_final
                                - (r.resource_id - 1 - a.wrap_resources_at * row)
                                    * a.gap_between_resources
                         /\ (r.x_final = first.x_final /\ r.y_final = first.y_final
                                <=> r.resource_id = 1)

\* a frame with no queue row beyond the wrap threshold was placed twice,
\* and the second pass moved a queue row of rank 2 and a resource row of
\* resource_id 2 in the first row of resources
C22_Witness ==
    /\ PlacedTwice /\ NoQueueRowBeyondWrap
    /\ \E p, q \in DOMAIN prep.again :
        /\ prep.again[p].event_type = "queue" /\ prep.again[p].rank = 2
        /\ prep.again[p].x_final # prep.full_entity_df_plus_pos[FirstPass(p)].x_final
        /\ prep.again[q].event_type = "resource_use" /\ prep.again[q].resource_id = 2
        /\ prep.again[q].row = 0
        /\ prep.again[q].x_final # prep.full_entity_df_plus_pos[FirstPass(q)].x_final

(* C23: animate_activity_log, given a valid event log and position table,  *)
(* runs reshape_for_animations, generate_animation_df and                  *)
(* generate_animation, calling each only with arguments it accepts, and    *)
(* returns the figure without raising.                                     *)
C23_AnimateRuns ==
    prep.stage = "animate_activity_log" =>
        /\ prep.reached = "generate_animation"
        /\ prep.outcome = "ok"

---------------------------------------------------------------------------
(* Claims about the acquire-or-timeout race of attend_clinic (checked      *)
(* under Spec, on the clinics run with mode "race").                       *)

\* the clinics whose patients wait on req | timeout(time_until_closing)
RaceSides(variants) ==
    {s \in Sides : sims[s].variant \in variants /\ inp.mode = "race"}

Logged(sim, p, ev) ==
    \E i \in DOMAIN sim.log : sim.log[i].e = p /\ sim.log[i].ev = ev

\* the get event of patient p is still in the store's get_queue
InGetQueue(sim, p) ==
    \E i \in DOMAIN sim.store.get_queue : sim.store.get_queue[i].id = p

\* the timeout of patient p's race is being processed while its request has
\* not been granted
TimeoutFiresFirst(s, p) ==
    /\ Next_is(s, "race")
    /\ HeadEv(sims[s]).p = p
    /\ sims[s].gst[p] = "pending"

\* the condition of patient p was triggered by the timeout and will be
\* processed before its get event (if that is triggered in between)
GivingUp(sim, p) ==
    /\ sim.cst[p] = "triggered"
    /\ sim.gst[p] # "processed"
    /\ ~ \E i, j \in DOMAIN sim.queue :
            /\ i < j
            /\ sim.queue[i].kind = "get" /\ sim.queue[i].p = p
            /\ sim.queue[j].kind = "cond" /\ sim.queue[j].p = p

\* patient p left attend_clinic through the branch without treatment: the
\* step logged depart and nothing else, and left the store as it was
GaveUp(s, p) ==
    /\ sims'[s].cst[p] = "processed"
    /\ sims'[s].pc[p] = "done"
    /\ sims'[s].log = Append(sims[s].log,
                             [e |-> p, ev |-> "depart", t |-> sims'[s].now, rid |-> 0])
    /\ ~ Logged(sims'[s], p, "treatment_begins")
    /\ sims'[s].store = sims[s].store
    /\ sims'[s].gst[p] = sims[s].gst[p]
    /\ sims[s].gst[p] = "pending" => InGetQueue(sims'[s], p)

\* C32: in the acquire-or-timeout race on VidigiPriorityStore, when the
\* timeout to closing time fires before the grant, the patient logs no
\* treatment_begins and goes on to log depart, and leaving the scope neither
\* cancels nor removes its pending request: it stays in get_queue (until a
\* later release completes it), and the patient never logs treatment_begins.
C32_TimeoutLeavesRequest ==
    [][\A s \in RaceSides({"opt"}) : \A p \in Patients :
          /\ TimeoutFiresFirst(s, p) => GivingUp(sims'[s], p)
          /\ GivingUp(sims[s], p) => (GivingUp(sims'[s], p) \/ GaveUp(s, p))
          /\ (sims[s].pc[p] = "done" /\ ~ Logged(sims[s], p, "treatment_begins"))
                => ~ Logged(sims'[s], p, "treatment_begins")
          /\ (sims[s].pc[p] = "done" /\ sims[s].gst[p] = "pending")
                => (InGetQueue(sims'[s], p) \/ sims'[s].gst[p] = "triggered")
      ]_vars

\* a patient lost the race and departed untreated, its request still pending
\* in get_queue
C32_Witness ==
    \E s \in RaceSides({"opt"}) : \E p \in Patients :
        /\ sims[s].cst[p] = "processed" /\ sims[s].pc[p] = "done"
        /\ sims[s].gst[p] = "pending" /\ InGetQueue(sims[s], p)
        /\ Logged(sims[s], p, "depart")
        /\ ~ Logged(sims[s], p, "treatment_begins")

\* the scoped requests that were left without giving an item back, and were
\* completed with an item all the same
Swallowed(sim) ==
    {p \in Patients : /\ sim.pc[p] = "done"
                      /\ sim.back[p] = 0
                      /\ sim.gst[p] \in {"triggered", "processed"}}

\* C38: a scoped request on VidigiStore or VidigiPriorityStore that is left
\* while its get is pending (or completed, not yet processed) is never
\* withdrawn: it stays in get_queue until a release completes it, the item
\* it is completed with is never given back, and the items available to the
\* live requesters (in the store or held inside a scope) are from then on
\* one fewer for each such request.
C38_AbandonedRequestSwallowsItem ==
    [][\A s \in RaceSides(ScopedVariants) : sims[s].phase # "new" =>
          /\ Len(sims'[s].store.items) + Cardinality(Held(sims'[s]))
                = inp.n_cubicles - Cardinality(Swallowed(sims'[s]))
          /\ Swallowed(sims[s]) \subseteq Swallowed(sims'[s])
          /\ \A p \in Patients :
                /\ (sims[s].pc[p] = "done" /\ sims[s].gst[p] = "pending")
                      => (InGetQueue(sims'[s], p) \/ sims'[s].gst[p] = "triggered")
                /\ p \in Swallowed(sims'[s])
                      => (sims'[s].back[p] = 0
                          /\ ~ Logged(sims'[s], p, "treatment_begins"))
      ]_vars

\* an abandoned request has swallowed an item: a live patient waits with its
\* request pending while the store is empty and nobody holds an item
C38_Witness ==
    \E s \in RaceSides(ScopedVariants) : \E p, q \in Patients :
        /\ p \in Swallowed(sims[s]) /\ sims[s].gst[p] = "processed"
        /\ sims[s].pc[q] = "wait_race" /\ sims[s].gst[q] = "pending"
        /\ sims[s].store.items = <<>>
        /\ Held(sims[s]) = {}

---------------------------------------------------------------------------
(* SpecNight: the overnight-closure clinic with its closure processes.     *)
(* sims is one simulation record as in Spec, with the fields phase, now,   *)
(* eid, queue, store, gst, gval, cst, back, pc, counter, log and           *)
(*   adj     per closure process, adjusted_unav_time of its closure.       *)
(* Its processes are the arrival generator (0), the patients               *)
(* 1..MaxNightPatients and, after them, the n_cubicles closure processes.  *)
(* inp holds g (n_cubicles, unav_freq, unav_time, sim_duration), the       *)
(* sampled treatment durations and the priority each process requests at.  *)

\* patients the arrival generator creates
MaxNightPatients == 2
\* g.sim_duration
MaxNightClock == 7

NightCubicles == {1, 2}      \* g.n_cubicles
NightFreqs    == {2, 3}      \* g.unav_freq
NightTimes    == {1, 2}      \* g.unav_time

NightPatients == 1..MaxNightPatients
Closures(n)   == {MaxNightPatients + i : i \in 1..n}
NightProcs    == {0} \cup NightPatients \cup UNION {Closures(n) : n \in NightCubicles}

\* the 'patient' field of the rows the closure processes log
overnight_closure == 0

\* Model.__init__: the environment, and the store populated by its constructor
NightSim(n) ==
    LET res == PS_populate(NewStore(Unbounded), n)
        sim == [variant |-> "opt", phase |-> "ready", now |-> 0, eid |-> 0,
                queue   |-> <<>>,
                store   |-> res.st,
                gst     |-> [p \in NightProcs |-> "none"],
                gval    |-> [p \in NightProcs |-> 0],
                cst     |-> [p \in NightProcs |-> "none"],
                back    |-> [p \in NightProcs |-> 0],
                pc      |-> [p \in NightProcs |-> "new"],
                adj     |-> [p \in NightProcs |-> 0],
                counter |-> 0,
                log     |-> <<>>]
    IN  ApplyFired(sim, res.fired)

InitNight ==
    /\ \E n \in NightCubicles, f \in NightFreqs, u \in NightTimes,
          dur \in [NightPatients -> Durations] :
          /\ inp = [n_cubicles |-> n, unav_freq |-> f, unav_time |-> u,
                    sim_duration |-> MaxNightClock, dur |-> dur,
                    prio |-> [p \in NightProcs |->
                                 IF p \in NightPatients THEN 1 ELSE -1],
                    mode |-> "race", failer |-> 0]
          /\ sims = NightSim(n)
    /\ pstore = NewStore(Unbounded)
    /\ reqs = <<>>
    /\ nitems = 0
    /\ trig = <<>>
    /\ last = NoCall
    /\ logger = <<>>
    /\ lcall = <<>>
    /\ prep = <<>>

\* for i in range(g.n_cubicles): self.env.process(self.close_clinic_overnight())
RECURSIVE StartClosures(_, _, _)
StartClosures(sim, i, n) ==
    IF i > n THEN sim
    ELSE StartClosures(Sched([sim EXCEPT !.pc[MaxNightPatients + i] = "start"],
                             "init", MaxNightPatients + i, URGENT, 0),
                       i + 1, n)

\* generator_patient_arrivals of the closure clinic, from the top of its
\* loop to its timeout: an arrival that would fall into the closure period
\* is skipped to the end of the period
night_generator_loop(sim, sampled_inter) ==
    LET next_arrival_time  == sim.now + sampled_inter
        time_until_closing == inp.unav_freq - (sim.now % inp.unav_freq)
        unav_start         == sim.now + time_until_closing
        unav_end           == unav_start + inp.unav_time
    IN  IF next_arrival_time >= unav_start /\ next_arrival_time < unav_end
        THEN Sched([sim EXCEPT !.pc[0] = "skip"], "arr", 0, NORMAL, unav_end - sim.now)
        ELSE Sched([sim EXCEPT !.pc[0] = "wait_arr"], "arr", 0, NORMAL, sampled_inter)

\* ... and after the inter-arrival timeout: the new patient's process
night_generator_arrival(sim) ==
    LET n == sim.counter + 1
    IN  Sched([sim EXCEPT !.counter = n, !.pc[n] = "start"], "init", n, URGENT, 0)

\* close_clinic_overnight: the wait for the next closing time
close_clinic_overnight_sleep(sim, c) ==
    Sched([sim EXCEPT !.pc[c] = "wait_close"], "close", c, NORMAL, inp.unav_freq)

\* close_clinic_overnight at closing time: the length of the closure, and
\* the request at priority -1
close_clinic_overnight_request(sim, c) ==
    LET closing_time == sim.now
        adjusted     == adjusted_unav_time(inp.unav_time,
                                           overrun(closing_time, inp.unav_freq))
    IN  [Issue([sim EXCEPT !.adj[c] = adjusted], c) EXCEPT !.pc[c] = "wait_req"]

\* close_clinic_overnight resumed with a cubicle: log treatment_begins and
\* keep the cubicle for adjusted_unav_time
close_clinic_overnight_begin(sim, c) ==
    Sched([Log(sim, overnight_closure, "treatment_begins", sim.gval[c])
              EXCEPT !.pc[c] = "closed"],
          "reopen", c, NORMAL, sim.adj[c])

\* the next event of the run is of this kind (env.run(until=g.sim_duration))
NightNext_is(kind) ==
    /\ sims.phase = "run"
    /\ sims.queue # <<>>
    /\ HeadEv(sims).t < inp.sim_duration
    /\ HeadEv(sims).kind = kind

\* Model.run: the generator and the closure processes, then env.run
NightRun ==
    /\ sims.phase = "ready"
    /\ sims' = StartClosures(Sched([sims EXCEPT !.phase = "run", !.pc[0] = "start"],
                                   "init", 0, URGENT, 0),
                             1, inp.n_cubicles)
    /\ UNCHANGED <<inp, storeVars, logVars, prepVars>>

\* Initialize of a process: run it up to its first wait
NightInitialize ==
    /\ NightNext_is("init")
    /\ \E sampled_inter \in Gaps :
        LET p == HeadEv(sims).p
        IN  sims' = CASE p = 0 -> night_generator_loop(Pop(sims), sampled_inter)
                      [] p \in NightPatients -> attend_clinic_arrive(Pop(sims), p)
                      [] OTHER -> close_clinic_overnight_sleep(Pop(sims), p)
    /\ UNCHANGED <<inp, storeVars, logVars, prepVars>>

\* the generator's timeout: a patient arrives (unless the closure period was
\* skipped), and the generator goes round its loop
NightArrival ==
    /\ NightNext_is("arr")
    /\ \E sampled_inter \in Gaps :
        LET s1 == IF sims.pc[0] = "wait_arr"
                  THEN night_generator_arrival(Pop(sims)) ELSE Pop(sims)
        IN  sims' = IF s1.counter >= MaxNightPatients
                    THEN [s1 EXCEPT !.pc[0] = "cut"]
                    ELSE night_generator_loop(s1, sampled_inter)
    /\ UNCHANGED <<inp, storeVars, logVars, prepVars>>

\* a get event is processed: a patient's condition is checked, a closure
\* process resumes; an abandoned event has no listener
NightGet ==
    /\ NightNext_is("get")
    /\ LET p   == HeadEv(sims).p
           sim == [Pop(sims) EXCEPT !.gst[p] = "processed"]
       IN  sims' = CASE sim.pc[p] = "wait_race" -> Condition_check(sim, p)
                     [] sim.pc[p] = "wait_req"  -> close_clinic_overnight_begin(sim, p)
                     [] OTHER -> sim
    /\ UNCHANGED <<inp, storeVars, logVars, prepVars>>

\* the events of the constructor's puts: nothing listens
NightPut ==
    /\ NightNext_is("put")
    /\ sims' = Pop(sims)
    /\ UNCHANGED <<inp, storeVars, logVars, prepVars>>

\* the timeout of a patient's race
NightRace ==
    /\ NightNext_is("race")
    /\ sims' = Condition_check(Pop(sims), HeadEv(sims).p)
    /\ UNCHANGED <<inp, storeVars, logVars, prepVars>>

\* the condition req | timeout is processed
NightCond ==
    /\ NightNext_is("cond")
    /\ LET p   == HeadEv(sims).p
           sim == [Pop(sims) EXCEPT !.cst[p] = "processed"]
       IN  sims' = IF sim.gst[p] = "processed"
                   THEN attend_clinic_begin(sim, p)
                   ELSE attend_clinic_give_up(sim, p)
    /\ UNCHANGED <<inp, storeVars, logVars, prepVars>>

\* the treatment timeout
NightTreat ==
    /\ NightNext_is("treat")
    /\ sims' = attend_clinic_complete(Pop(sims), HeadEv(sims).p)
    /\ UNCHANGED <<inp, storeVars, logVars, prepVars>>

\* closing time of a closure process
NightClose ==
    /\ NightNext_is("close")
    /\ sims' = close_clinic_overnight_request(Pop(sims), HeadEv(sims).p)
    /\ UNCHANGED <<inp, storeVars, logVars, prepVars>>

\* the end of a closure: the with-block is left and the loop starts again
NightReopen ==
    /\ NightNext_is("reopen")
    /\ sims' = close_clinic_overnight_sleep(ExitScope(Pop(sims), HeadEv(sims).p),
                                            HeadEv(sims).p)
    /\ UNCHANGED <<inp, storeVars, logVars, prepVars>>

\* the event of a patient process that ended: nothing listens
NightEnd ==
    /\ NightNext_is("end")
    /\ sims' = Pop(sims)
    /\ UNCHANGED <<inp, storeVars, logVars, prepVars>>

NextNight ==
    \/ NightRun
    \/ NightInitialize
    \/ NightArrival
    \/ NightGet
    \/ NightPut
    \/ NightRace
    \/ NightCond
    \/ NightTreat
    \/ NightClose
    \/ NightReopen
    \/ NightEnd

SpecNight == InitNight /\ [][NextNight]_vars

\* the closure processes whose request is pending
ClosuresWaiting(sim) ==
    {c \in Closures(inp.n_cubicles) : sim.gst[c] = "pending"}

\* the step completes the pending request of patient p with an item
PatientGranted(p) == sims.gst[p] = "pending" /\ sims'.gst[p] = "triggered"

\* the step logs treatment_begins of patient p
PatientBegins(p) ==
    /\ Len(sims'.log) > Len(sims.log)
    /\ \E i \in (Len(sims.log) + 1)..Len(sims'.log) :
          sims'.log[i].e = p /\ sims'.log[i].ev = "treatment_begins"

\* the patients inside their request scope with a cubicle
NightHeld(sim) ==
    {p \in NightPatients : /\ sim.gst[p] \in {"triggered", "processed"}
                           /\ sim.pc[p] \in {"wait_race", "treat"}}

\* C33: a closure request (priority -1) pending when a cubicle is released
\* is granted before any pending patient request (priority 1): while closure
\* processes wait, no patient is granted a cubicle and none begins treatment,
\* and every closure process ends up with a cubicle: a closure process only
\* waits while a patient inside its scope still has the cubicle it will get.
C33_ClosureSeizesAll ==
    [][/\ \A p \in NightPatients :
            (PatientGranted(p) \/ PatientBegins(p)) => ClosuresWaiting(sims) = {}
       /\ ClosuresWaiting(sims') # {} => NightHeld(sims') # {}
      ]_vars

---------------------------------------------------------------------------
(* SpecGas: the gas station of example 15, its tank (a simpy.Container),   *)
(* gas_station_control and tank_truck, with the cars as the processes that *)
(* take fuel from the tank.  sims is the record                            *)
(*   level, capacity, get_queue, put_queue   the Container (queues hold    *)
(*            the amounts of the pending events);                          *)
(*   puts     put events that succeeded and wait for the scheduler (their  *)
(*            callback serves get_queue);                                  *)
(*   pc       "control" (gas_station_control is in its loop), "travel"     *)
(*            (tank_truck waits for TANK_TRUCK_ARRIVAL_TIME), "step"       *)
(*            (tank_truck waits for its 1-second timeout);                 *)
(*   elapsed, total_refueled   the locals of tank_truck;                   *)
(*   event    the last event logged for the call or the truck.             *)
(* The clock is left out: the cars take fuel at any moment.                *)

STATION_TANK_SIZE == 600
THRESHOLD == 25
CAR_TANK_SIZE == 50
TANK_TRUCK_REFUEL_TIME == 1000
refuel_rate == 10
step == 1
\* gas pumps: VidigiStore(env, num_resources=2)
GasPumps == 2

\* random.randint(*CAR_TANK_LEVEL), the values of [5, 25] followed
CarTankLevels == {5, 25}

\* seconds a tank truck is followed for
MaxElapsed == 1002

\* Container._do_get on the head of get_queue, repeated while it proceeds
RECURSIVE CT_trigger_get(_)
CT_trigger_get(ct) ==
    IF ct.get_queue # <<>> /\ ct.level >= Head(ct.get_queue)
    THEN CT_trigger_get([ct EXCEPT !.level = @ - Head(ct.get_queue),
                                   !.get_queue = Tail(@)])
    ELSE ct

\* Container._do_put on the head of put_queue, repeated while it proceeds
RECURSIVE CT_trigger_put(_)
CT_trigger_put(ct) ==
    IF ct.put_queue # <<>> /\ ct.capacity - ct.level >= Head(ct.put_queue)
    THEN CT_trigger_put([ct EXCEPT !.level = @ + Head(ct.put_queue),
                                   !.put_queue = Tail(@),
                                   !.puts = @ + 1])
    ELSE ct

\* station_tank.get(amount)
CT_get(ct, amount) ==
    CT_trigger_get([ct EXCEPT !.get_queue = Append(@, amount)])

\* station_tank.put(amount)
CT_put(ct, amount) ==
    CT_trigger_put([ct EXCEPT !.put_queue = Append(@, amount)])

Min(a, b) == IF a < b THEN a ELSE b

\* bool | int of Python, for the two values of the bool
BoolOr(b, n) == IF b /\ n % 2 = 0 THEN n + 1 ELSE n

\* the while condition of tank_truck as Python parses it:
\* ((elapsed < refuel_time) | station_tank.level)
\*     < (STATION_TANK_SIZE - (STATION_TANK_SIZE * 0.02))
\* (first a variant that stops at half of the tank)
tank_truck_continues_half(elapsed, level) ==
    2 * BoolOr(elapsed < TANK_TRUCK_REFUEL_TIME, level) < STATION_TANK_SIZE

tank_truck_continues(elapsed, level) ==
    100 * BoolOr(elapsed < TANK_TRUCK_REFUEL_TIME, level)
        < 100 * STATION_TANK_SIZE - 2 * STATION_TANK_SIZE

\* tank_truck from a test of its while condition to its next wait, or to
\* the departure it logs after the loop (gas_station_control then resumes)
tank_truck_loop(ct) ==
    IF tank_truck_continues(ct.elapsed, ct.level)
    THEN [ct EXCEPT !.pc = "step"]
    ELSE [ct EXCEPT !.pc = "control", !.event = "depart"]

\* the body of the while loop after its timeout
tank_truck_body(ct) ==
    LET increment        == refuel_rate * step
        space_available  == ct.capacity - ct.level
        actual_increment == Min(increment, space_available)
        waited           == [ct EXCEPT !.elapsed = @ + step]
    IN  IF actual_increment > 0
        THEN [CT_put(waited, actual_increment)
                 EXCEPT !.total_refueled = @ + actual_increment]
        ELSE waited

InitGas ==
    /\ sims = [level |-> STATION_TANK_SIZE, capacity |-> STATION_TANK_SIZE,
               get_queue |-> <<>>, put_queue |-> <<>>, puts |-> 0,
               pc |-> "control", elapsed |-> 0, total_refueled |-> 0,
               event |-> "none"]
    /\ inp = <<>>
    /\ pstore = NewStore(Unbounded)
    /\ reqs = <<>>
    /\ nitems = 0
    /\ trig = <<>>
    /\ last = NoCall
    /\ logger = <<>>
    /\ lcall = <<>>
    /\ prep = <<>>

\* car: with a pump, yield station_tank.get(fuel_required)
CarGet(car_tank_level) ==
    /\ Len(sims.get_queue) < GasPumps
    /\ LET fuel_required == CAR_TANK_SIZE - car_tank_level
       IN  sims' = CT_get(sims, fuel_required)
    /\ UNCHANGED <<inp, storeVars, logVars, prepVars>>

\* gas_station_control finds the level below the threshold and starts
\* tank_truck
CallTruck ==
    /\ sims.pc = "control"
    /\ sims.level * 100 < THRESHOLD * sims.capacity
    /\ sims' = [sims EXCEPT !.pc = "travel", !.event = "calling_truck",
                            !.elapsed = 0, !.total_refueled = 0]
    /\ UNCHANGED <<inp, storeVars, logVars, prepVars>>

\* tank_truck after TANK_TRUCK_ARRIVAL_TIME: it logs refuelling and enters
\* its loop
TruckArrives ==
    /\ sims.pc = "travel"
    /\ sims' = tank_truck_loop([sims EXCEPT !.event = "refuelling"])
    /\ UNCHANGED <<inp, storeVars, logVars, prepVars>>

\* the 1-second timeout of the loop; the put event of the step before was
\* processed at its own time
TruckStep ==
    /\ sims.pc = "step"
    /\ sims.puts = 0
    /\ sims.elapsed < MaxElapsed
    /\ sims' = tank_truck_loop(tank_truck_body(sims))
    /\ UNCHANGED <<inp, storeVars, logVars, prepVars>>

\* a put event is processed: its callback _trigger_get serves the cars
PutProcessed ==
    /\ sims.puts > 0
    /\ sims' = CT_trigger_get([sims EXCEPT !.puts = @ - 1])
    /\ UNCHANGED <<inp, storeVars, logVars, prepVars>>

NextGas ==
    \/ \E car_tank_level \in CarTankLevels : CarGet(car_tank_level)
    \/ CallTruck
    \/ TruckArrives
    \/ TruckStep
    \/ PutProcessed

SpecGas == InitGas /\ [][NextGas]_vars

\* the step is one pass of the truck's loop / logs the truck's departure
TruckStepped == sims.pc = "step" /\ sims'.elapsed = sims.elapsed + step
TruckDeparts == sims.event = "refuelling" /\ sims'.event = "depart"

\* C36: once the tank truck has arrived it raises the station level in
\* 1-second steps of at most 10 litres, never by more than the free space,
\* so that the level never exceeds the capacity, and it logs its departure
\* only when the level is at least 98% of STATION_TANK_SIZE.
C36_TruckFillsToFull ==
    [][/\ sims'.level <= sims'.capacity
       /\ TruckStepped =>
            /\ sims'.level >= sims.level
            /\ sims'.level - sims.level <= 10
            /\ sims'.level - sims.level <= sims.capacity - sims.level
            /\ sims'.total_refueled - sims.total_refueled = sims'.level - sims.level
       /\ sims'.elapsed # sims.elapsed => (TruckStepped \/ sims'.elapsed = 0)
       /\ TruckDeparts => 100 * sims'.level >= 98 * STATION_TANK_SIZE
      ]_vars

\* the truck has left after putting more than a tankful into the tank: cars
\* took fuel while it was filled
C36_Witness ==
    /\ sims.event = "depart"
    /\ sims.elapsed > 0
    /\ sims.total_refueled > STATION_TANK_SIZE
    /\ 100 * sims.level >= 98 * STATION_TANK_SIZE

---------------------------------------------------------------------------
(* SpecRobots: the multi-robot warehouse of example 16.                    *)
(* sims is [rb, corridor, now]: rb[r] is robot r,                               *)
(*   pos       self.pos = robot_positions[name], in pixels;                *)
(*   pc        "arrival_wait" (package_arrival's timeout), "bay_wait",     *)
(*             "corr_wait" (yield req, not granted), "granted" (req was    *)
(*             triggered), "poll" (a blocked step's 0.1 timeout), "travel" *)
(*             (a step's timeout), "packing", "task", "done";              *)
(*   timer     ticks until the timeout the robot waits for fires (NoValue: *)
(*             it waits for no timeout); a tick is 0.05 time units;        *)
(*   plan      the steps _do_stepwise_move has still to make;              *)
(*   next_pos, location, outbound, pathway   the locals of move_to and     *)
(*             _do_stepwise_move;                                          *)
(*   pickup_name, count, other   the samples of the batch;  batches  the   *)
(*             batches finished;                                           *)
(* corridor is packing_corridor, [user (0: nobody), queue]; now is env.now  *)
(* in ticks, kept modulo ClockWrap (the robots only use differences).      *)
(* inp.slot[r] is the packing_slot = pickup_slot of robot r.               *)
(* poll_position only logs and is left out.                                *)

SPEED == 100
PACKING_TIME == 5
\* ticks of yield self.env.timeout(1) and of yield self.env.timeout(0.1)
UnitTicks == 20
PollTicks == 2

\* the clock is kept modulo two polls
ClockWrap == 2 * PollTicks

\* batches a robot is followed for
MaxBatches == 2

Robots == {1, 2}
\* the slots of the two robots followed, out of range(-4, 4)
RobotSlots == {<<0, -4>>, <<-4, -3>>}
\* random.randint(4, 8), random.choice(PICKUP_POINTS), random.randint(*OTHER_TASK_TIME)
ArrivalDelays == {4, 5}
RobotPickups  == {"pickup_1", "pickup_4"}
TaskTimes     == {2}
\* random.randint(*PACKAGES_PER_BATCH)
BatchSizes    == {1}

LayoutNames == <<"packing", "maintenance", "pickup_1", "pickup_2", "pickup_3",
                 "pickup_4", "pickup_5", "pickup_6", "pickup_7", "pickup_8">>

LAYOUT ==
    [name \in Range(LayoutNames) |->
        CASE name = "packing"     -> <<300, 300>>
          [] name = "maintenance" -> <<600, 300>>
          [] name = "pickup_1"    -> <<0, 500>>
          [] name = "pickup_2"    -> <<200, 500>>
          [] name = "pickup_3"    -> <<400, 500>>
          [] name = "pickup_4"    -> <<600, 500>>
          [] name = "pickup_5"    -> <<0, 100>>
          [] name = "pickup_6"    -> <<200, 100>>
          [] name = "pickup_7"    -> <<400, 100>>
          [] OTHER                -> <<600, 100>>]

\* {"packing"} | {f"pickup{i}" for i in range(1, 9)}
free_move_areas ==
    {"packing", "pickup1", "pickup2", "pickup3", "pickup4",
     "pickup5", "pickup6", "pickup7", "pickup8"}

\* f"pickup{pickup_slot}"
PickupKey(pickup_slot) ==
    CASE pickup_slot = -4 -> "pickup-4"
      [] pickup_slot = -3 -> "pickup-3"
      [] pickup_slot = -2 -> "pickup-2"
      [] pickup_slot = -1 -> "pickup-1"
      [] pickup_slot = 0  -> "pickup0"
      [] pickup_slot = 1  -> "pickup1"
      [] pickup_slot = 2  -> "pickup2"
      [] OTHER            -> "pickup3"

\* the value of both entries of self.area_offsets (packing_slot = pickup_slot)
area_offset(slot) ==
    <<slot * 15, IF slot > 4 THEN slot - 30 ELSE 0>>

\* _get_area_name: the first LAYOUT name at these coordinates ("None": none)
get_area_name(pos) ==
    LET at == {i \in DOMAIN LayoutNames : LAYOUT[LayoutNames[i]] = pos}
    IN  IF at = {} THEN "None"
        ELSE LayoutNames[CHOOSE i \in at : \A j \in at : i <= j]

\* _is_free_area
is_free_area(pos) == get_area_name(pos) \in free_move_areas

\* _with_area_offset
with_area_offset(slot, base_pos) ==
    IF get_area_name(base_pos) \in {"packing", PickupKey(slot)}
    THEN <<base_pos[1] + area_offset(slot)[1], base_pos[2] + area_offset(slot)[2]>>
    ELSE base_pos

Abs(x) == IF x < 0 THEN -x ELSE x

\* the steps of one axis: int(abs(delta) / SPEED) steps of one time unit,
\* then the remaining fraction
AxisSteps(axis, delta) ==
    LET steps     == Abs(delta) \div SPEED
        remaining == Abs(delta) % SPEED
        sign      == IF delta < 0 THEN -1 ELSE 1
    IN  [i \in 1..(steps + IF remaining > 0 THEN 1 ELSE 0) |->
            IF i <= steps
            THEN [axis |-> axis, move |-> sign * SPEED, ticks |-> UnitTicks]
            ELSE [axis |-> axis, move |-> sign * remaining,
                  ticks |-> (remaining * UnitTicks) \div SPEED]]

\* sequence of _do_stepwise_move: x then y when outbound, else y then x
StepSequence(pos, destination, outbound) ==
    IF outbound
    THEN AxisSteps("x", destination[1] - pos[1]) \o AxisSteps("y", destination[2] - pos[2])
    ELSE AxisSteps("y", destination[2] - pos[2]) \o AxisSteps("x", destination[1] - pos[1])

\* any(... for other in robot_positions if other != self.name)
OccupiedByOther(w, r, cell) ==
    \E q \in Robots \ {r} : w.rb[q].pos = cell

\* simpy.Resource.release by its user: the head of the queue becomes the
\* user and its request event is triggered
CorridorRelease(w, r) ==
    IF w.corridor.user # r THEN w
    ELSE IF w.corridor.queue = <<>> THEN [w EXCEPT !.corridor.user = 0]
    ELSE LET q == Head(w.corridor.queue)
         IN  [w EXCEPT !.corridor = [user |-> q, queue |-> Tail(w.corridor.queue)],
                       !.rb[q].pc = "granted", !.rb[q].timer = 0]

\* location_name.startswith("pickup")
IsPickup(location_name) == location_name \notin {"packing", "maintenance"}

\* F applied to x, with x evaluated once
Bind(F(_), x) == CHOOSE y \in {F(v) : v \in {x}} : TRUE

RECURSIVE StepwiseNext(_, _)

\* _do_stepwise_move: the sequence of steps from self.pos, then its loop
do_stepwise_move(w, r) ==
    Bind(LAMBDA planned : StepwiseNext(planned, r),
         [w EXCEPT !.rb[r].plan =
              StepSequence(w.rb[r].pos, LAYOUT[w.rb[r].location], w.rb[r].outbound)])

\* move_to, corridor control: with packing_corridor.request() as req
\* when the move starts at or goes to LAYOUT["packing"]
corridor_control(w, r) ==
    LET requires_corridor ==
            \/ w.rb[r].pos = LAYOUT["packing"]
            \/ LAYOUT[w.rb[r].location] = LAYOUT["packing"]
    IN  IF ~ requires_corridor THEN do_stepwise_move(w, r)
        ELSE IF w.corridor.user = 0
        THEN [w EXCEPT !.corridor.user = r,
                       !.rb[r].pc = "granted", !.rb[r].timer = 0]
        ELSE [w EXCEPT !.corridor.queue = Append(@, r),
                       !.rb[r].pc = "corr_wait", !.rb[r].timer = NoValue]

\* _wait_for_bay_clear: poll every 0.1 while another robot is at the bay
wait_for_bay_clear(w, r) ==
    IF OccupiedByOther(w, r, LAYOUT[w.rb[r].location])
    THEN [w EXCEPT !.rb[r].pc = "bay_wait", !.rb[r].timer = PollTicks]
    ELSE corridor_control(w, r)

\* move_to(location_name, pathway, outbound)
move_to(w, r, location_name, pathway, outbound) ==
    Bind(LAMBDA w1 : IF outbound /\ IsPickup(location_name)
                     THEN wait_for_bay_clear(w1, r)
                     ELSE corridor_control(w1, r),
         [w EXCEPT !.rb[r].location = location_name,
                   !.rb[r].pathway = pathway,
                   !.rb[r].outbound = outbound])

\* package_arrival after pickup_packages returned: the next batch
batch_end(w, r) ==
    IF w.rb[r].batches + 1 >= MaxBatches
    THEN [w EXCEPT !.rb[r].batches = @ + 1, !.rb[r].pc = "done",
                   !.rb[r].timer = NoValue]
    ELSE [w EXCEPT !.rb[r].batches = @ + 1, !.rb[r].pc = "arrival_wait",
                   !.rb[r].timer = w.rb[r].delay * UnitTicks]

\* the end of move_to (the corridor is released on leaving the with-block)
\* and what pickup_packages / other_task do next
move_end(w, r) ==
    Bind(LAMBDA w1 :
            CASE w1.rb[r].pathway = "to_pickup" ->
                    move_to(w1, r, "packing", "to_packing", FALSE)
              [] w1.rb[r].pathway = "to_packing" ->
                    [w1 EXCEPT !.rb[r].pc = "packing",
                               !.rb[r].timer = PACKING_TIME * UnitTicks]
              [] w1.rb[r].pathway = "to_maintenance" ->
                    [w1 EXCEPT !.rb[r].pc = "task",
                               !.rb[r].timer = w1.rb[r].task_time * UnitTicks]
              [] OTHER -> batch_end(w1, r),
         CorridorRelease(w, r))

\* the loop of _do_stepwise_move at the top of a step: poll while the next
\* cell is taken (unless the current or the next cell is a free-move area),
\* then travel
StepwiseNext(w, r) ==
    IF w.rb[r].plan = <<>> THEN move_end(w, r)
    ELSE LET s        == Head(w.rb[r].plan)
             pos      == w.rb[r].pos
             next_pos == IF s.axis = "x" THEN <<pos[1] + s.move, pos[2]>>
                         ELSE <<pos[1], pos[2] + s.move>>
         IN  IF /\ ~ (is_free_area(pos) \/ is_free_area(next_pos))
                /\ OccupiedByOther(w, r, next_pos)
             THEN [w EXCEPT !.rb[r].pc = "poll", !.rb[r].timer = PollTicks,
                            !.rb[r].next_pos = next_pos]
             ELSE [w EXCEPT !.rb[r].pc = "travel", !.rb[r].timer = s.ticks,
                            !.rb[r].next_pos = next_pos]

\* PackingRobot.__init__ and package_arrival up to its first timeout
NewRobot(slot, delay) ==
    [pos |-> with_area_offset(slot, LAYOUT["packing"]),
     pc |-> "arrival_wait", timer |-> delay * UnitTicks,
     plan |-> <<>>, next_pos |-> with_area_offset(slot, LAYOUT["packing"]),
     location |-> "packing", outbound |-> TRUE, pathway |-> "none",
     pickup_name |-> "none", count |-> 0, other |-> FALSE, task_time |-> 0,
     delay |-> 0, batches |-> 0]

InitRobots ==
    /\ \E slots \in RobotSlots, delay \in [Robots -> ArrivalDelays] :
          /\ inp = [slot |-> [r \in Robots |-> slots[r]]]
          /\ sims = [rb |-> [r \in Robots |-> NewRobot(slots[r], delay[r])],
                     corridor |-> [user |-> 0, queue |-> <<>>],
                     now |-> 0]
    /\ pstore = NewStore(Unbounded)
    /\ reqs = <<>>
    /\ nitems = 0
    /\ trig = <<>>
    /\ last = NoCall
    /\ logger = <<>>
    /\ lcall = <<>>
    /\ prep = <<>>

\* the event robot r waits for is the next of the run (equal times in any
\* order)
RobotFires(r, pc) ==
    /\ sims.rb[r].pc = pc
    /\ sims.rb[r].timer # NoValue
    /\ \A q \in Robots :
          sims.rb[q].timer # NoValue => sims.rb[r].timer <= sims.rb[q].timer

\* env.step(): the clock advances to the event of robot r
Elapse(w, r) ==
    [w EXCEPT !.rb = [q \in Robots |->
                         IF w.rb[q].timer = NoValue THEN w.rb[q]
                         ELSE [w.rb[q] EXCEPT !.timer = @ - w.rb[r].timer]],
              !.now = (@ + w.rb[r].timer) % ClockWrap]

\* package_arrival: a batch arrives, pickup_packages starts the move to the
\* pickup point
PackageArrives(r) ==
    /\ RobotFires(r, "arrival_wait")
    /\ \E pickup_name \in RobotPickups, num_packages \in BatchSizes,
          other \in BOOLEAN, task_time \in TaskTimes, delay \in ArrivalDelays :
          \E w \in {[Elapse(sims, r) EXCEPT
                          !.rb[r].pickup_name = pickup_name,
                          !.rb[r].count = num_packages,
                          !.rb[r].other = other,
                          !.rb[r].task_time = task_time,
                          !.rb[r].delay = delay]} :
              sims' = move_to(w, r, pickup_name, "to_pickup", TRUE)
    /\ UNCHANGED <<inp, storeVars, logVars, prepVars>>

\* the 0.1 timeout of _wait_for_bay_clear
BayPoll(r) ==
    /\ RobotFires(r, "bay_wait")
    /\ \E w \in {Elapse(sims, r)} : sims' = wait_for_bay_clear(w, r)
    /\ UNCHANGED <<inp, storeVars, logVars, prepVars>>

\* the corridor request is processed: the move starts
CorridorGranted(r) ==
    /\ RobotFires(r, "granted")
    /\ \E w \in {Elapse(sims, r)} : sims' = do_stepwise_move(w, r)
    /\ UNCHANGED <<inp, storeVars, logVars, prepVars>>

\* the 0.1 timeout of a blocked step
CellPoll(r) ==
    /\ RobotFires(r, "poll")
    /\ \E w \in {Elapse(sims, r)} : sims' = StepwiseNext(w, r)
    /\ UNCHANGED <<inp, storeVars, logVars, prepVars>>

\* the timeout of a step: the robot is at next_pos
StepArrives(r) ==
    /\ RobotFires(r, "travel")
    /\ \E w \in {[Elapse(sims, r) EXCEPT
                        !.rb[r].pos = with_area_offset(inp.slot[r], sims.rb[r].next_pos),
                        !.rb[r].plan = Tail(@)]} :
          sims' = StepwiseNext(w, r)
    /\ UNCHANGED <<inp, storeVars, logVars, prepVars>>

\* pickup_packages: a PACKING_TIME timeout; after the last one, maybe
\* other_task
Packed(r) ==
    /\ RobotFires(r, "packing")
    /\ sims' = IF sims.rb[r].count > 1
               THEN [Elapse(sims, r) EXCEPT !.rb[r].count = @ - 1,
                                            !.rb[r].timer = PACKING_TIME * UnitTicks]
               ELSE IF sims.rb[r].other
               THEN Bind(LAMBDA w : move_to(w, r, "maintenance", "to_maintenance", TRUE),
                         Elapse(sims, r))
               ELSE batch_end(Elapse(sims, r), r)
    /\ UNCHANGED <<inp, storeVars, logVars, prepVars>>

\* other_task: the task is done, the robot returns to packing
TaskDone(r) ==
    /\ RobotFires(r, "task")
    /\ \E w \in {Elapse(sims, r)} :
          sims' = move_to(w, r, "packing", "return_from_maintenance", TRUE)
    /\ UNCHANGED <<inp, storeVars, logVars, prepVars>>

NextRobots ==
    \E r \in Robots :
        \/ PackageArrives(r)
        \/ BayPoll(r)
        \/ CorridorGranted(r)
        \/ CellPoll(r)
        \/ StepArrives(r)
        \/ Packed(r)
        \/ TaskDone(r)

SpecRobots == InitRobots /\ [][NextRobots]_vars

\* the scheduler always processes the next event
SpecRobotsLive == SpecRobots /\ WF_vars(NextRobots)

\* the areas the claims call free-move areas: the packing station (with the
\* robot's offset) and the pickup bays
InPackingArea(r, pos) == pos = with_area_offset(inp.slot[r], LAYOUT["packing"])

InFreeMoveArea(r, pos) ==
    \/ InPackingArea(r, pos)
    \/ get_area_name(pos) \notin {"None", "maintenance"}

\* C34: a robot never enters a cell another robot occupies, except inside
\* the free-move areas: no two robots have the same position outside the
\* packing station and the pickup bays.
C34_NoSharedCell ==
    \A r, q \in Robots :
        (r # q /\ sims.rb[r].pos = sims.rb[q].pos)
            => InFreeMoveArea(r, sims.rb[r].pos)

\* robot r is in the middle of a move (every move_to leaves or enters the
\* packing area)
MidMove(w, r) == w.rb[r].pc \in {"poll", "travel"}

\* C35: every step that leaves the packing area and every step that enters
\* it is made by the robot that holds packing_corridor, whatever its
\* packing_slot, so that at most one robot at a time is in the middle of a
\* move into or out of the packing area.
C35_CorridorHeldThroughPacking ==
    [][/\ \A r \in Robots :
            (/\ sims'.rb[r].pos # sims.rb[r].pos
             /\ InPackingArea(r, sims.rb[r].pos) \/ InPackingArea(r, sims'.rb[r].pos))
                => sims.corridor.user = r
       /\ Cardinality({r \in Robots : MidMove(sims', r)}) <= 1
      ]_vars

\* robot r is inside move_to
InMove(r) == sims.rb[r].pc \in {"bay_wait", "corr_wait", "granted", "poll", "travel"}

\* C40: every move_to eventually completes: no robots wait on each other
\* for ever.
C40_MovesComplete ==
    \A r \in Robots : InMove(r) ~> ~ InMove(r)

(***************************************************************************)
(* The resource markers of generate_animation and the entities             *)
(* generate_animation_df places on them (checked under SpecMarkers).       *)
(* inp is one stage of event_position_df with the arguments of the two     *)
(* functions: [x, y, resource_count, wrap_resources_at,                    *)
(* gap_between_resources, gap_between_rows, gap_between_resource_rows].    *)
(* sims is [markers, entities]: markers is the list of markers             *)
(* generate_animation has computed for the stage (<<>> before), and        *)
(* entities[k] the position generate_animation_df has given an entity      *)
(* with resource_id k (k is in the domain once the entity is placed).      *)
(***************************************************************************)

\* resources of the stage (getattr(scenario, resource))
MaxResources == 4

MarkerXs        == {0, 100}
MarkerYs        == {200}
MarkerWraps     == {NoValue, 1, 2, 3}
MarkerGaps      == {-10, 5, 10}
MarkerRowGaps   == {20, 30}

\* the resource section of generate_animation for one stage: marker number
\* i + 1 of the list is the row of resource_id (cumcount) i
\* (first a variant that numbers the markers from 1)
events_with_resources_from_one(x, y, resource_count, a) ==
    [i1 \in 1..resource_count |->
        LET resource_id == i1
            row == IF a.wrap_resources_at = NoValue THEN NoValue
                   ELSE resource_id \div a.wrap_resources_at
            x1  == x - a.gap_between_resources * i1
        IN  [resource_id |-> resource_id,
             row     |-> row,
             x_final |-> IF row = NoValue THEN x1
                         ELSE x1 + a.wrap_resources_at * row * a.gap_between_resources
                                 + a.gap_between_resources,
             y_final |-> IF row = NoValue THEN y
                         ELSE y + row * a.gap_between_resource_rows]]

events_with_resources(x, y, resource_count, a) ==
    [i1 \in 1..resource_count |->
        LET resource_id == i1 - 1
            row == IF a.wrap_resources_at = NoValue THEN NoValue
                   ELSE resource_id \div a.wrap_resources_at
            x1  == x - a.gap_between_resources * ((i1 - 1) + 1)
        IN  [resource_id |-> resource_id,
             row     |-> row,
             x_final |-> IF row = NoValue THEN x1
                         ELSE x1 + a.wrap_resources_at * row * a.gap_between_resources
                                 + a.gap_between_resources,
             y_final |-> IF row = NoValue THEN y
                         ELSE y + row * a.gap_between_resource_rows]]

\* the y at which the marker trace is drawn
marker_trace_y(m) == m.y_final - 10

InitMarkers ==
    /\ inp \in [x : MarkerXs, y : MarkerYs, resource_count : 1..MaxResources,
                wrap_resources_at : MarkerWraps,
                gap_between_resources : MarkerGaps,
                gap_between_rows : MarkerRowGaps,
                gap_between_resource_rows : MarkerRowGaps]
    /\ sims = [markers |-> <<>>, entities |-> [k \in {} |-> NoValue]]
    /\ pstore = NewStore(Unbounded)
    /\ reqs = <<>>
    /\ nitems = 0
    /\ trig = <<>>
    /\ last = NoCall
    /\ logger = <<>>
    /\ lcall = <<>>
    /\ prep = <<>>

\* generate_animation adds the markers of the stage
AddResourceMarkers ==
    /\ sims.markers = <<>>
    /\ sims' = [sims EXCEPT !.markers =
                    events_with_resources(inp.x, inp.y, inp.resource_count, inp)]
    /\ UNCHANGED <<inp, storeVars, logVars, prepVars>>

\* generate_animation_df places an entity that uses resource k of the stage
PlaceOnResource(k) ==
    /\ k <= inp.resource_count
    /\ k \notin DOMAIN sims.entities
    /\ sims' = [sims EXCEPT !.entities =
                    [j \in DOMAIN sims.entities \cup {k} |->
                        IF j = k THEN ResourcePosition(inp.x, inp.y, k, inp)
                        ELSE sims.entities[j]]]
    /\ UNCHANGED <<inp, storeVars, logVars, prepVars>>

NextMarkers ==
    \/ AddResourceMarkers
    \/ \E k \in 1..MaxResources : PlaceOnResource(k)

SpecMarkers == InitMarkers /\ [][NextMarkers]_vars

\* the entity with resource_id k and the k-th marker are both there
OnMarker(k) ==
    /\ k <= Len(sims.markers)
    /\ k \in DOMAIN sims.entities

\* C31: for every resource_id k >= 1, wrap_resources_at and
\* gap_between_resources, the entity that uses resource k has the x of the
\* k-th resource marker of the stage and is in the same wrapped row, so
\* with equal row gaps it has the same y_final as well.
C31_EntityOnItsMarker ==
    \A k \in 1..MaxResources :
        OnMarker(k) =>
            /\ sims.entities[k].x_final = sims.markers[k].x_final
            /\ sims.entities[k].row = sims.markers[k].row
            /\ inp.gap_between_rows = inp.gap_between_resource_rows
                   => sims.entities[k].y_final = sims.markers[k].y_final

C31_Witness ==
    \E k \in 2..MaxResources :
        /\ OnMarker(k)
        /\ inp.wrap_resources_at # NoValue
        /\ sims.entities[k].row >= 1
        /\ sims.entities[k].x_final # inp.x - k * inp.gap_between_resources
        /\ inp.gap_between_rows = inp.gap_between_resource_rows
        /\ marker_trace_y(sims.markers[k]) = sims.entities[k].y_final - 10
=============================================================================
